---------------------------- MODULE Spec2Model ----------------------------
(***************************************************************************)
(* A model of the abstracted-fs transfer/traversal engine (src/src/ops.rs) *)
(* over the backend capability contract as the local backend implements it *)
(* (src/src/backends/std.rs).                                              *)
(*                                                                         *)
(* A path is the sequence of its non-empty segments: "/s/a/f" is           *)
(* <<"s","a","f">> and "/" is <<>>.  A backend's file system is a function *)
(* from the paths that exist to their entries.  Backend 1 is the source    *)
(* backend of every operation; the two-backend operations write to         *)
(* backend 2, the single-backend ones to backend 1.                        *)
(***************************************************************************)
EXTENDS Integers, Sequences, FiniteSets, TLC

VARIABLES
    fs,                  \* [1..2 -> file system]: the state of both backends
    fs0,                 \* fs when the operation was called (never changes)
    calls,               \* the backend calls issued so far, in order
    fault,               \* TRUE while the environment may still fail one call
    req,                 \* the operation called: [op, from, to, order]
    pc,                  \* the position of the operation's flow of control
    result,              \* the operation's return value once pc = "done"
    paths,               \* the top-level inputs not yet iterated
    dirs_to_copy,        \* dirs_to_copy / dirs_to_duplicate: <<origin, parents>>
    new_dirs_to_copy,    \* the next layer of the same
    dirs_to_remove,      \* move: source directories to remove at the end
    dirs_to_process,     \* remove_all / calculate_total_size: the layer's rest
    new_dirs_to_process, \* the next layer of the same
    cur,                 \* the directory being processed
    entries,             \* the rest of the listing being iterated
    files_removed,       \* remove_all: files removed in the current directory
    results_len,         \* remove_all: length of the current listing
    total_size,          \* calculate_total_size: the running sum
    progress,            \* the TransitProgress of a progress-tracked operation
    xfer,                \* the transfer of one file that is under way
    notes,               \* every snapshot passed to the progress handler
    tasks,               \* the backend calls of concurrent callers under way
    reference,           \* the outcome of the run an operation is compared with
    arg,                 \* the argument of a conversion that was called
    ret                  \* what the functions of the conversion have returned

vars == <<fs, fs0, calls, fault, req, pc, result, paths, dirs_to_copy,
          new_dirs_to_copy, dirs_to_remove, dirs_to_process,
          new_dirs_to_process, cur, entries, files_removed, results_len,
          total_size, progress, xfer, notes, tasks, reference, arg, ret>>

---------------------------------------------------------------------------
(* Bounds of the model *)

\* the largest number of entries in a source tree
MaxNodes == 3

\* the longest destination directory path (in segments) a traversal is
\* followed to
MaxDepth == 6

---------------------------------------------------------------------------
(* Names, file types and contents of the entries the model draws *)

FileTypes ==
    {"File", "Dir", "Symlink", "Socket", "Fifo", "CharDevice", "BlockDevice",
     "Unknown"}

\* every name, in the order a listing sorts by
AllNames == <<"a", "b", "d", "f", "g", "h", "i", "j", "k", "l", "s">>

NameRank(n) == CHOOSE i \in 1..Len(AllNames) : AllNames[i] = n

\* the type an entry drawn under a given name has
TypeOfName(n) ==
    CASE n \in {"a", "b", "d", "s"} -> "Dir"
      [] n \in {"f", "g", "h", "i", "j"} -> "File"
      [] n = "l" -> "Symlink"
      [] n = "k" -> "Socket"

\* the bytes a source entry drawn under a given name holds
ContentOfName(n) ==
    CASE n = "f" -> <<"f">>
      [] n = "g" -> <<"g", "g">>
      [] n \in {"h", "i", "j"} -> <<n, n>>
      [] n = "l" -> <<"l", "l", "l">>
      [] n = "k" -> <<"k">>
      [] OTHER -> <<>>

\* the bytes of an entry that occupied the destination before the call
OldContent == <<"x", "x", "x", "x">>

\* Metadata.size = None
NoSize == -1

\* the size the backend reports for a directory itself
DirSize == 4

\* an entry of a file system, with the size its metadata reports
Entry(t, c, size) == [type |-> t, content |-> c, size |-> size]

DirEntry == Entry("Dir", <<>>, DirSize)

FileEntry(t, c) == Entry(t, c, Len(c))

\* a source entry; the backend reports no size for the symlink
SourceEntry(n) ==
    IF TypeOfName(n) = "Dir" THEN DirEntry
    ELSE IF n = "l" THEN Entry("Symlink", ContentOfName(n), NoSize)
    ELSE FileEntry(TypeOfName(n), ContentOfName(n))

\* an entry that occupied the destination before the call
DestEntry(n) ==
    IF TypeOfName(n) = "Dir" THEN DirEntry ELSE FileEntry(TypeOfName(n), OldContent)

---------------------------------------------------------------------------
(* Paths *)

Last(s) == s[Len(s)]

Front(s) == SubSeq(s, 1, Len(s) - 1)

IsPrefix(p, q) == Len(p) <= Len(q) /\ SubSeq(q, 1, Len(p)) = p

IsBelow(q, p) == Len(q) > Len(p) /\ IsPrefix(p, q)

Descendants(f, p) == {q \in DOMAIN f : IsBelow(q, p)}

Children(f, p) == {q \in DOMAIN f : Len(q) = Len(p) + 1 /\ IsPrefix(p, q)}

\* util.rs: the last non-empty segment; "/" for the path "/"
extract_lowest_path_item(path) ==
    IF path = <<>> THEN "/" ELSE Last(path)

\* format!("{to}/{name}")
JoinName(to, name) == Append(to, name)

\* a destination directory path that leaves the enclosing directories out
JoinDirFlat(to, parent_dirs, dir_name) == Append(to, dir_name)

\* format!("{to}{parent_dirs}{dir_name}"): parent_dirs is "/" (here <<>>) or
\* "/x/y/" (here <<"x","y">>)
JoinDir(to, parent_dirs, dir_name) == Append(to \o parent_dirs, dir_name)

---------------------------------------------------------------------------
(* Errors (error.rs) *)

NoError == [kind |-> "None", arg |-> <<>>]

StdIO(k) == [kind |-> "StdIO", arg |-> <<k>>]

FileAlreadyExists(p) == [kind |-> "FileAlreadyExists", arg |-> p]

FileNonexistent(p) == [kind |-> "FileNonexistent", arg |-> p]

CannotCopyOrMoveFileType(t) == [kind |-> "CannotCopyOrMoveFileType", arg |-> <<t>>]

NoFileName == [kind |-> "NoFileName", arg |-> <<>>]

is_already_exists_error(e) ==
    \/ e.kind = "FileAlreadyExists"
    \/ e.kind = "StdIO" /\ e.arg = <<"AlreadyExists">>

Ok == [status |-> "ok", err |-> NoError]

Err(e) == [status |-> "err", err |-> e]

Running == [status |-> "running", err |-> NoError]

---------------------------------------------------------------------------
(* The backend contract as StdBackend implements it (backends/std.rs).    *)
(* Each operator takes the backend's file system and returns the call's   *)
(* error (NoError on success), the file system after it and its value.    *)

Res(e, f, v) == [err |-> e, fs |-> f, val |-> v]

Put(f, p, e) == [q \in DOMAIN f \cup {p} |-> IF q = p THEN e ELSE f[q]]

Del(f, p) == [q \in DOMAIN f \ {p} |-> f[q]]

IsDir(f, p) == p \in DOMAIN f /\ f[p].type = "Dir"

ParentIsDir(f, p) == p # <<>> /\ IsDir(f, Front(p))

\* data.rs File with the fields of its Metadata the engine reads
FileOf(f, p) ==
    [path |-> p, name |-> Last(p), type |-> f[p].type, size |-> f[p].size]

RECURSIVE SortedPaths(_, _)
SortedPaths(ps, order) ==
    IF ps = {} THEN <<>>
    ELSE LET first == CHOOSE p \in ps : \A q \in ps :
                          IF order = "asc"
                          THEN NameRank(Last(p)) <= NameRank(Last(q))
                          ELSE NameRank(Last(p)) >= NameRank(Last(q))
         IN <<first>> \o SortedPaths(ps \ {first}, order)

exists(f, path) == Res(NoError, f, path \in DOMAIN f)

get_file_type(f, path) ==
    IF path \notin DOMAIN f THEN Res(StdIO("NotFound"), f, "Unknown")
    ELSE Res(NoError, f, f[path].type)

RECURSIVE retrieve_files_from(_, _, _)
retrieve_files_from(f, ps, files) ==
    IF ps = <<>> THEN Res(NoError, f, files)
    ELSE IF Head(ps) = <<>> THEN Res(NoFileName, f, <<>>)
    ELSE IF Head(ps) \notin DOMAIN f THEN Res(StdIO("NotFound"), f, <<>>)
    ELSE retrieve_files_from(f, Tail(ps), Append(files, FileOf(f, Head(ps))))

retrieve_files(f, ps) == retrieve_files_from(f, ps, <<>>)

retrieve_file_content(f, path) ==
    IF path \notin DOMAIN f THEN Res(StdIO("NotFound"), f, <<>>)
    ELSE IF f[path].type = "Dir" THEN Res(StdIO("IsADirectory"), f, <<>>)
    ELSE Res(NoError, f, f[path].content)

read_dir(f, path, order) ==
    IF path \notin DOMAIN f THEN Res(StdIO("NotFound"), f, <<>>)
    ELSE IF f[path].type # "Dir" THEN Res(StdIO("NotADirectory"), f, <<>>)
    ELSE LET listing == SortedPaths(Children(f, path), order)
         IN Res(NoError, f, [i \in 1..Len(listing) |-> FileOf(f, listing[i])])

create_file(f, path, overwrite, contents) ==
    IF ~overwrite /\ path \in DOMAIN f THEN Res(FileAlreadyExists(path), f, FALSE)
    ELSE IF ~ParentIsDir(f, path) THEN Res(StdIO("NotFound"), f, FALSE)
    ELSE IF IsDir(f, path) THEN Res(StdIO("IsADirectory"), f, FALSE)
    ELSE Res(NoError, Put(f, path, FileEntry("File", contents)), TRUE)

create_dir(f, path) ==
    IF path \in DOMAIN f THEN Res(StdIO("AlreadyExists"), f, FALSE)
    ELSE IF ~ParentIsDir(f, path) THEN Res(StdIO("NotFound"), f, FALSE)
    ELSE Res(NoError, Put(f, path, DirEntry), TRUE)

\* tokio::fs::rename: the entry, with what lies below it, changes its path
Renamed(f, from, to) ==
    LET moved == {from} \cup Descendants(f, from)
        gone == moved \cup {to} \cup Descendants(f, to)
        target(q) == to \o SubSeq(q, Len(from) + 1, Len(q))
        kept == DOMAIN f \ gone
    IN [q \in kept \cup {target(m) : m \in moved} |->
            IF q \in kept THEN f[q]
            ELSE f[CHOOSE m \in moved : target(m) = q]]

move_file(f, from, to, overwrite) ==
    IF ~overwrite /\ to \in DOMAIN f THEN Res(FileAlreadyExists(to), f, FALSE)
    ELSE IF from \notin DOMAIN f THEN Res(StdIO("NotFound"), f, FALSE)
    ELSE IF ~ParentIsDir(f, to) THEN Res(StdIO("NotFound"), f, FALSE)
    ELSE IF IsDir(f, to) /\ ~IsDir(f, from) THEN Res(StdIO("IsADirectory"), f, FALSE)
    ELSE IF IsDir(f, from) /\ to \in DOMAIN f /\ ~IsDir(f, to)
        THEN Res(StdIO("NotADirectory"), f, FALSE)
    ELSE IF IsDir(f, from) /\ IsPrefix(from, to) /\ from # to
        THEN Res(StdIO("InvalidInput"), f, FALSE)
    ELSE IF IsDir(f, to) /\ Descendants(f, to) # {} /\ from # to
        THEN Res(StdIO("DirectoryNotEmpty"), f, FALSE)
    ELSE IF from = to THEN Res(NoError, f, TRUE)
    ELSE Res(NoError, Renamed(f, from, to), TRUE)

copy_file(f, from, to, overwrite) ==
    IF ~overwrite /\ to \in DOMAIN f THEN Res(FileAlreadyExists(to), f, FALSE)
    ELSE IF from \notin DOMAIN f THEN Res(StdIO("NotFound"), f, FALSE)
    ELSE IF f[from].type = "Dir" THEN Res(StdIO("InvalidInput"), f, FALSE)
    ELSE IF ~ParentIsDir(f, to) THEN Res(StdIO("NotFound"), f, FALSE)
    ELSE IF IsDir(f, to) THEN Res(StdIO("IsADirectory"), f, FALSE)
    ELSE IF from = to THEN Res(NoError, f, TRUE)
    ELSE Res(NoError,
             Put(f, to, Entry(f[from].type, f[from].content, f[from].size)),
             TRUE)

remove_file(f, path) ==
    IF path \notin DOMAIN f THEN Res(StdIO("NotFound"), f, FALSE)
    ELSE IF f[path].type = "Dir" THEN Res(StdIO("IsADirectory"), f, FALSE)
    ELSE Res(NoError, Del(f, path), TRUE)

remove_dir(f, path) ==
    IF path \notin DOMAIN f THEN Res(StdIO("NotFound"), f, FALSE)
    ELSE IF f[path].type # "Dir" THEN Res(StdIO("NotADirectory"), f, FALSE)
    ELSE IF Descendants(f, path) # {} THEN Res(StdIO("DirectoryNotEmpty"), f, FALSE)
    ELSE Res(NoError, Del(f, path), TRUE)

---------------------------------------------------------------------------
(* Issuing backend calls.  A step of the engine threads a context through *)
(* the calls it makes: both file systems, the call log, and the position  *)
(* (counted down) of the one call the environment fails in this step.     *)

BackendCall(op, path, to, overwrite, contents, ps) ==
    [op |-> op, path |-> path, to |-> to, overwrite |-> overwrite,
     contents |-> contents, paths |-> ps]

CallExists(p) == BackendCall("exists", p, <<>>, FALSE, <<>>, <<>>)
CallGetFileType(p) == BackendCall("get_file_type", p, <<>>, FALSE, <<>>, <<>>)
CallRetrieveFiles(ps) == BackendCall("retrieve_files", <<>>, <<>>, FALSE, <<>>, ps)
CallRetrieveFileContent(p) == BackendCall("retrieve_file_content", p, <<>>, FALSE, <<>>, <<>>)
CallReadDir(p) == BackendCall("read_dir", p, <<>>, FALSE, <<>>, <<>>)
CallCreateFile(p, ow, c) == BackendCall("create_file", p, <<>>, ow, c, <<>>)
CallCreateDir(p) == BackendCall("create_dir", p, <<>>, FALSE, <<>>, <<>>)
CallMoveFile(p, q, ow) == BackendCall("move_file", p, q, ow, <<>>, <<>>)
CallCopyFile(p, q, ow) == BackendCall("copy_file", p, q, ow, <<>>, <<>>)
CallRemoveFile(p) == BackendCall("remove_file", p, <<>>, FALSE, <<>>, <<>>)
CallRemoveDir(p) == BackendCall("remove_dir", p, <<>>, FALSE, <<>>, <<>>)

\* the FSBackend method a call names, applied to the backend's file system
Dispatch(f, c, order) ==
    CASE c.op = "exists" -> exists(f, c.path)
      [] c.op = "get_file_type" -> get_file_type(f, c.path)
      [] c.op = "retrieve_files" -> retrieve_files(f, c.paths)
      [] c.op = "retrieve_file_content" -> retrieve_file_content(f, c.path)
      [] c.op = "read_dir" -> read_dir(f, c.path, order)
      [] c.op = "create_file" -> create_file(f, c.path, c.overwrite, c.contents)
      [] c.op = "create_dir" -> create_dir(f, c.path)
      [] c.op = "move_file" -> move_file(f, c.path, c.to, c.overwrite)
      [] c.op = "copy_file" -> copy_file(f, c.path, c.to, c.overwrite)
      [] c.op = "remove_file" -> remove_file(f, c.path)
      [] c.op = "remove_dir" -> remove_dir(f, c.path)

\* the path a call writes to
Target(c) == IF c.op \in {"move_file", "copy_file"} THEN c.to ELSE c.path

\* a log entry: the call, the backend it went to, the error it returned
\* (ok when none), how many entries lay below its path and whether the path
\* it writes to was taken when it was issued
Logged(f, b, c, err) ==
    [b |-> b, op |-> c.op, path |-> c.path, to |-> c.to,
     overwrite |-> c.overwrite, paths |-> c.paths, ok |-> err = NoError,
     err |-> err,
     below |-> Cardinality(Descendants(f, c.path)),
     taken |-> Target(c) \in DOMAIN f]

Context(inj) ==
    [fs |-> fs, log |-> calls, inj |-> inj, hit |-> FALSE,
     err |-> NoError, val |-> FALSE]

\* one awaited call on backend b; an injected failure is an I/O error that
\* leaves the backend as it was
Invoke(ctx, b, c) ==
    LET failed == ctx.inj = 1
        r == IF failed THEN Res(StdIO("Other"), ctx.fs[b], FALSE)
             ELSE Dispatch(ctx.fs[b], c, req.order)
    IN [fs |-> [ctx.fs EXCEPT ![b] = r.fs],
        log |-> Append(ctx.log, Logged(ctx.fs[b], b, c, r.err)),
        inj |-> ctx.inj - 1,
        hit |-> ctx.hit \/ failed,
        err |-> r.err,
        val |-> r.val]

\* the positions at which the environment may fail a call of the next step
Injections == IF fault THEN {0, 1, 2} ELSE {0}

\* the backend state, the log and the fault budget a step leaves behind
Commit(ctx) ==
    /\ fs' = ctx.fs
    /\ calls' = ctx.log
    /\ fault' = (fault /\ ~ctx.hit)

\* a step that goes on whatever its call returned
NeverFailed(ctx) == FALSE

\* whether the call of the step returned an error (the `?` after a call)
Failed(ctx) == ctx.err # NoError

---------------------------------------------------------------------------
(* The operations *)

Ops ==
    {"move_files", "copy_files", "move_files_with_progress",
     "copy_files_with_progress", "move_files_between", "copy_files_between",
     "move_files_between_with_progress", "copy_files_between_with_progress"}

IsMove(op) ==
    op \in {"move_files", "move_files_with_progress", "move_files_between",
            "move_files_between_with_progress"}

IsBetween(op) ==
    op \in {"move_files_between", "copy_files_between",
            "move_files_between_with_progress",
            "copy_files_between_with_progress"}

HasProgress(op) ==
    op \in {"move_files_with_progress", "copy_files_with_progress",
            "move_files_between_with_progress",
            "copy_files_between_with_progress"}

\* the backend an operation reads its sources from
FromBackend == 1

\* the backend an operation writes to: to_backend, or the only backend
ToBackend(op) == IF IsBetween(op) THEN 2 ELSE 1

NoDir == [path |-> <<>>, parent_dirs |-> <<>>, dir_name |-> "", to_dir_path |-> <<>>]

NoConflict == [file_type |-> "", origin |-> <<>>, destination |-> <<>>]

\* TransitProgress::default(); state is Normal, Exists(conflict) or
\* Other(error)
NoProgress ==
    [processed_bytes |-> 0, total_bytes |-> 0, processed_files |-> 0,
     total_files |-> 0, state |-> "Normal", conflict |-> NoConflict,
     error |-> NoError]

NoFile == [path |-> <<>>, name |-> "", type |-> "Unknown", size |-> NoSize]

NoTransfer ==
    [file |-> NoFile, dest |-> <<>>, nested |-> FALSE, kind |-> "",
     overwrite |-> FALSE, retry |-> FALSE, contents |-> <<>>]

\* an operation that stalls instead of returning
Stall(r) ==
    /\ pc' = "stalled"
    /\ result' = r

\* `return`: the operation ends with the result r
Finish(r) ==
    /\ pc' = "done"
    /\ result' = r

---------------------------------------------------------------------------
(* remove_all (ops.rs 55-93) *)

\* ops.rs 58-64: one iteration of the loop over the input paths
RemoveAllPath ==
    /\ pc = "remove_all"
    /\ paths # <<>>
    /\ \E inj \in Injections :
        LET path == Head(paths)
            c1 == Invoke(Context(inj), FromBackend, CallGetFileType(path))
            isDir == ~Failed(c1) /\ c1.val = "Dir"
            c2 == IF Failed(c1) \/ isDir THEN c1
                  ELSE Invoke(c1, FromBackend, CallRemoveFile(path))
        IN /\ Commit(c2)
           /\ paths' = Tail(paths)
           /\ dirs_to_process' = IF isDir THEN Append(dirs_to_process, path)
                                 ELSE dirs_to_process
           /\ IF Failed(c2) THEN Finish(Err(c2.err))
              ELSE /\ pc' = IF Tail(paths) = <<>> THEN "remove_all_dirs" ELSE pc
                   /\ UNCHANGED result
    /\ UNCHANGED <<fs0, tasks, reference, arg, ret, req, dirs_to_copy, new_dirs_to_copy, dirs_to_remove,
                   new_dirs_to_process, cur, entries, files_removed,
                   results_len, total_size, progress, xfer, notes>>

\* ops.rs 69-73: the next directory of the layer is listed
RemoveAllReadDir ==
    /\ pc = "remove_all_dirs"
    /\ dirs_to_process # <<>>
    /\ \E inj \in Injections :
        LET dir == Head(dirs_to_process)
            c1 == Invoke(Context(inj), FromBackend, CallReadDir(dir))
        IN /\ Commit(c1)
           /\ dirs_to_process' = Tail(dirs_to_process)
           /\ IF Failed(c1) THEN /\ Finish(Err(c1.err))
                                 /\ UNCHANGED <<cur, entries, files_removed, results_len>>
              ELSE /\ pc' = "remove_all_entries"
                   /\ cur' = [NoDir EXCEPT !.path = dir]
                   /\ entries' = c1.val
                   /\ results_len' = Len(c1.val)
                   /\ files_removed' = 0
                   /\ UNCHANGED result
    /\ UNCHANGED <<fs0, tasks, reference, arg, ret, req, paths, dirs_to_copy, new_dirs_to_copy,
                   dirs_to_remove, new_dirs_to_process, total_size, progress,
                   xfer, notes>>

\* ops.rs 74-81: one entry of the listing
RemoveAllEntry ==
    /\ pc = "remove_all_entries"
    /\ entries # <<>>
    /\ \E inj \in Injections :
        LET file == Head(entries)
            isDir == file.type = "Dir"
            c1 == IF isDir THEN Context(inj)
                  ELSE Invoke(Context(inj), FromBackend, CallRemoveFile(file.path))
        IN /\ Commit(c1)
           /\ entries' = Tail(entries)
           /\ new_dirs_to_process' = IF isDir THEN Append(new_dirs_to_process, file.path)
                                     ELSE new_dirs_to_process
           /\ IF Failed(c1) THEN /\ Finish(Err(c1.err))
                                 /\ UNCHANGED files_removed
              ELSE /\ files_removed' = IF isDir THEN files_removed ELSE files_removed + 1
                   /\ UNCHANGED <<pc, result>>
    /\ UNCHANGED <<fs0, tasks, reference, arg, ret, req, paths, dirs_to_copy, new_dirs_to_copy,
                   dirs_to_remove, dirs_to_process, cur, results_len,
                   total_size, progress, xfer, notes>>

\* a remove_all that removes every listed directory at once
RemovesDirectoryAlways(removed, len) == TRUE

\* ops.rs 84: the condition under which the listed directory is removed
RemovesDirectory(removed, len) == removed = len

\* ops.rs 83-86: the listing is exhausted
RemoveAllDirDone ==
    /\ pc = "remove_all_entries"
    /\ entries = <<>>
    /\ \E inj \in Injections :
        LET c1 == IF RemovesDirectory(files_removed, results_len)
                  THEN Invoke(Context(inj), FromBackend, CallRemoveDir(cur.path))
                  ELSE Context(inj)
        IN /\ Commit(c1)
           /\ IF Failed(c1) THEN Finish(Err(c1.err))
              ELSE /\ pc' = "remove_all_dirs"
                   /\ UNCHANGED result
    /\ UNCHANGED <<fs0, tasks, reference, arg, ret, req, paths, dirs_to_copy, new_dirs_to_copy,
                   dirs_to_remove, dirs_to_process, new_dirs_to_process, cur,
                   entries, files_removed, results_len, total_size, progress,
                   xfer, notes>>

\* ops.rs 66-67, 89-92: the layer is exhausted
RemoveAllLayerDone ==
    /\ pc = "remove_all_dirs"
    /\ dirs_to_process = <<>>
    /\ dirs_to_process' = new_dirs_to_process
    /\ new_dirs_to_process' = <<>>
    /\ IF new_dirs_to_process = <<>> THEN Finish(Ok)
       ELSE UNCHANGED <<pc, result>>
    /\ UNCHANGED <<fs, fs0, tasks, reference, arg, ret, calls, fault, req, paths, dirs_to_copy,
                   new_dirs_to_copy, dirs_to_remove, cur, entries,
                   files_removed, results_len, total_size, progress, xfer,
                   notes>>

---------------------------------------------------------------------------
(* calculate_total_size (ops.rs 12-53), on its own and as the first phase  *)
(* of a progress-tracked operation                                         *)

\* size.unwrap_or(0)
unwrap_or_0(size) == IF size = NoSize THEN 0 ELSE size

\* a size accumulation that adds a directory's own size as well
AddSizeOfAny(file, total) == total + unwrap_or_0(file.size)

\* ops.rs 29-33, 41-45: what one listed entry adds to total_size
AddSize(file, total) ==
    IF file.type = "Dir" THEN total ELSE total + unwrap_or_0(file.size)

\* ops.rs 20-34, 40-46: the loop over a listing; directories are queued
RECURSIVE Accumulate(_, _, _)
Accumulate(files, total, dirs) ==
    IF files = <<>> THEN [total |-> total, dirs |-> dirs]
    ELSE Accumulate(Tail(files), AddSize(Head(files), total),
                    IF Head(files).type = "Dir"
                    THEN Append(dirs, Head(files).path) ELSE dirs)

\* a calculate_total_size that returns what it has summed when a call fails
PartialSum(error) == Ok

\* ops.rs 27, 40 (`?`): the error of the failing call is the result
FailFast(error) == Err(error)

\* ops.rs 20-34: the inputs' metadata is fetched and summed
TotalSizeRetrieve ==
    /\ pc = "calculate_total_size"
    /\ \E inj \in Injections :
        LET c1 == Invoke(Context(inj), FromBackend, CallRetrieveFiles(req.from))
            acc == Accumulate(c1.val, 0, <<>>)
        IN /\ Commit(c1)
           /\ IF Failed(c1) THEN /\ Finish(FailFast(c1.err))
                                 /\ UNCHANGED <<total_size, dirs_to_process>>
              ELSE /\ total_size' = acc.total
                   /\ dirs_to_process' = acc.dirs
                   /\ pc' = "calculate_total_size_dirs"
                   /\ UNCHANGED result
    /\ UNCHANGED <<fs0, tasks, reference, arg, ret, req, paths, dirs_to_copy, new_dirs_to_copy,
                   dirs_to_remove, new_dirs_to_process, cur, entries,
                   files_removed, results_len, progress, xfer, notes>>

\* ops.rs 39-47: the next directory of the layer is listed and summed
TotalSizeReadDir ==
    /\ pc = "calculate_total_size_dirs"
    /\ dirs_to_process # <<>>
    /\ \E inj \in Injections :
        LET c1 == Invoke(Context(inj), FromBackend, CallReadDir(Head(dirs_to_process)))
            acc == Accumulate(c1.val, total_size, new_dirs_to_process)
        IN /\ Commit(c1)
           /\ dirs_to_process' = Tail(dirs_to_process)
           /\ IF Failed(c1) THEN /\ Finish(FailFast(c1.err))
                                 /\ UNCHANGED <<total_size, new_dirs_to_process>>
              ELSE /\ total_size' = acc.total
                   /\ new_dirs_to_process' = acc.dirs
                   /\ UNCHANGED <<pc, result>>
    /\ UNCHANGED <<fs0, tasks, reference, arg, ret, req, paths, dirs_to_copy, new_dirs_to_copy,
                   dirs_to_remove, cur, entries, files_removed, results_len,
                   progress, xfer, notes>>

\* ops.rs 36, 49-52: the layer is exhausted; with no further layer the sum
\* is returned, to the caller or into progress.total_bytes (ops.rs 327-330)
TotalSizeLayerDone ==
    /\ pc = "calculate_total_size_dirs"
    /\ dirs_to_process = <<>>
    /\ dirs_to_process' = new_dirs_to_process
    /\ new_dirs_to_process' = <<>>
    /\ IF new_dirs_to_process # <<>> THEN UNCHANGED <<pc, result, progress>>
       ELSE IF req.op = "calculate_total_size"
            THEN Finish(Ok) /\ UNCHANGED progress
       ELSE /\ progress' = [NoProgress EXCEPT !.total_bytes = total_size]
            /\ pc' = "retrieve_files"
            /\ UNCHANGED result
    /\ UNCHANGED <<fs, fs0, tasks, reference, arg, ret, calls, fault, req, paths, dirs_to_copy,
                   new_dirs_to_copy, dirs_to_remove, cur, entries,
                   files_removed, results_len, total_size, xfer, notes>>

---------------------------------------------------------------------------
(* The copy and move operations (ops.rs 95-230, 312-952).  Every awaited   *)
(* backend call is a step of its own.                                      *)

\* the file types each operation transfers as leaves, among its inputs
\* (nested = FALSE) and among the entries of a directory (nested = TRUE)
LeafTypes(op, nested) ==
    CASE op = "move_files" -> {"File", "Symlink"}
      [] op = "copy_files" -> {"File", "Symlink"}
      [] op = "move_files_with_progress" -> {"File", "Symlink"}
      [] op = "copy_files_with_progress" -> {"File"}
      [] op = "move_files_between" -> {"File"}
      [] op = "copy_files_between" -> {"File", "Symlink"}
      [] op = "move_files_between_with_progress" ->
            IF nested THEN {"File", "Symlink"} ELSE {"File"}
      [] op = "copy_files_between_with_progress" -> {"File"}

\* the call each operation makes to transfer one file with overwrite = false
FirstAttempt(op, nested) ==
    CASE op \in {"move_files", "move_files_with_progress"} -> "move_file"
      [] op \in {"copy_files", "copy_files_with_progress"} -> "copy_file"
      [] op \in {"move_files_between", "move_files_between_with_progress"} ->
            "move_file_between"
      [] op = "copy_files_between" -> "copy_file_between"
      [] op = "copy_files_between_with_progress" ->
            IF nested THEN "copy_file" ELSE "copy_file_between"

\* the call each progress-tracked operation makes on an Overwrite response
OverwriteOp(op, nested) ==
    CASE op = "move_files_with_progress" -> "move_file"
      [] op = "copy_files_with_progress" ->
            IF nested THEN "move_file" ELSE "copy_file"
      [] op = "move_files_between_with_progress" -> "move_file_between"
      [] op = "copy_files_between_with_progress" -> "copy_file_between"

\* a first attempt that overwrites
FirstOverwriteAlways(op) == TRUE

\* the overwrite flag of the first attempt of every operation
FirstOverwrite(op) == FALSE

\* the transfer of file to dest that is to be attempted
NewTransfer(file, dest, nested) ==
    [file |-> file, dest |-> dest, nested |-> nested,
     kind |-> FirstAttempt(req.op, nested),
     overwrite |-> FirstOverwrite(req.op), retry |-> FALSE, contents |-> <<>>]

\* the backend the destination root is looked up on
ExistsBackend(op) == ToBackend(op)

\* a missing destination root that is let through
DestinationMissingIgnored(found) == FALSE

\* ops.rs 98: the condition under which the operation gives up
DestinationMissing(found) == ~found

\* ops.rs 98-100 (and 170, 323, 441, 549, 632, 712, 846): the destination
\* root must exist
CheckDestination ==
    /\ pc = "exists"
    /\ \E inj \in Injections :
        LET c1 == Invoke(Context(inj), ExistsBackend(req.op), CallExists(req.to))
        IN /\ Commit(c1)
           /\ IF Failed(c1) THEN Finish(Err(c1.err))
              ELSE IF DestinationMissing(c1.val)
                   THEN Finish(Err(FileNonexistent(req.to)))
              ELSE /\ pc' = IF HasProgress(req.op) THEN "calculate_total_size"
                            ELSE "paths"
                   /\ UNCHANGED result
    /\ UNCHANGED <<fs0, tasks, reference, arg, ret, req, paths, dirs_to_copy, new_dirs_to_copy,
                   dirs_to_remove, dirs_to_process, new_dirs_to_process, cur,
                   entries, files_removed, results_len, total_size, progress,
                   xfer, notes>>

\* a match that puts a listed directory at the head of the current layer
DispatchedDepthFirst(file, dest, nested, queue, item) ==
    IF file.type \in LeafTypes(req.op, nested)
    THEN /\ xfer' = NewTransfer(file, dest, nested)
         /\ pc' = "transfer"
         /\ UNCHANGED <<result, dirs_to_copy, new_dirs_to_copy>>
    ELSE IF file.type = "Dir"
    THEN /\ dirs_to_copy' = IF queue = "dirs_to_copy"
                            THEN Append(dirs_to_copy, item)
                            ELSE <<item>> \o dirs_to_copy
         /\ UNCHANGED <<pc, result, xfer, new_dirs_to_copy>>
    ELSE /\ Finish(Err(CannotCopyOrMoveFileType(file.type)))
         /\ UNCHANGED <<xfer, dirs_to_copy, new_dirs_to_copy>>

\* ops.rs 111-122, 345-369, 141-151 (and their copies): the match on the
\* type of an input or of a listed entry.  A leaf is handed to the transfer
\* steps, a directory is queued (item on the queue named), any other type
\* ends the operation.
Dispatched(file, dest, nested, queue, item) ==
    IF file.type \in LeafTypes(req.op, nested)
    THEN /\ xfer' = NewTransfer(file, dest, nested)
         /\ pc' = "transfer"
         /\ UNCHANGED <<result, dirs_to_copy, new_dirs_to_copy>>
    ELSE IF file.type = "Dir"
    THEN /\ IF queue = "dirs_to_copy"
            THEN /\ dirs_to_copy' = Append(dirs_to_copy, item)
                 /\ UNCHANGED new_dirs_to_copy
            ELSE /\ new_dirs_to_copy' = Append(new_dirs_to_copy, item)
                 /\ UNCHANGED dirs_to_copy
         /\ UNCHANGED <<pc, result, xfer>>
    ELSE /\ Finish(Err(CannotCopyOrMoveFileType(file.type)))
         /\ UNCHANGED <<xfer, dirs_to_copy, new_dirs_to_copy>>

\* ops.rs 107-123 (and 179-195, 558-575, 641-658): one input path of an
\* operation without progress; its type is looked up
TopLevelPath ==
    /\ pc = "paths"
    /\ paths # <<>>
    /\ \E inj \in Injections :
        LET path == Head(paths)
            c1 == Invoke(Context(inj), FromBackend, CallGetFileType(path))
            file == [path |-> path, name |-> extract_lowest_path_item(path),
                     type |-> c1.val, size |-> NoSize]
        IN /\ Commit(c1)
           /\ IF Failed(c1)
              THEN /\ Finish(Err(c1.err))
                   /\ UNCHANGED <<xfer, dirs_to_copy, new_dirs_to_copy>>
              ELSE Dispatched(file, JoinName(req.to, file.name), FALSE,
                              "dirs_to_copy", <<path, <<>>>>)
    /\ paths' = Tail(paths)
    /\ UNCHANGED <<fs0, tasks, reference, arg, ret, req, dirs_to_remove, dirs_to_process,
                   new_dirs_to_process, cur, entries, files_removed,
                   results_len, total_size, progress, notes>>

\* ops.rs 337-343 (and 455-461, 726-732, 860-866): a progress-tracked
\* operation fetches the metadata of its inputs
TopLevelRetrieve ==
    /\ pc = "retrieve_files"
    /\ \E inj \in Injections :
        LET c1 == Invoke(Context(inj), FromBackend, CallRetrieveFiles(req.from))
        IN /\ Commit(c1)
           /\ IF Failed(c1) THEN Finish(Err(c1.err)) /\ UNCHANGED entries
              ELSE /\ entries' = c1.val
                   /\ pc' = "files"
                   /\ UNCHANGED result
    /\ UNCHANGED <<fs0, tasks, reference, arg, ret, req, paths, dirs_to_copy, new_dirs_to_copy,
                   dirs_to_remove, dirs_to_process, new_dirs_to_process, cur,
                   files_removed, results_len, total_size, progress, xfer,
                   notes>>

\* ops.rs 345-369 (and 463-487, 734-760, 868-894): one input of a
\* progress-tracked operation
TopLevelFile ==
    /\ pc = "files"
    /\ entries # <<>>
    /\ LET file == Head(entries)
       IN Dispatched(file,
                     JoinName(req.to, extract_lowest_path_item(file.path)),
                     FALSE, "dirs_to_copy", <<file.path, <<>>>>)
    /\ entries' = Tail(entries)
    /\ UNCHANGED <<fs, fs0, tasks, reference, arg, ret, calls, fault, req, paths, dirs_to_remove,
                   dirs_to_process, new_dirs_to_process, cur, files_removed,
                   results_len, total_size, progress, notes>>

\* the loop over the inputs is exhausted
TopLevelDone ==
    /\ pc \in {"paths", "files"}
    /\ pc = "paths" => paths = <<>>
    /\ pc = "files" => entries = <<>>
    /\ pc' = "dirs"
    /\ UNCHANGED <<fs, fs0, tasks, reference, arg, ret, calls, fault, req, result, paths, dirs_to_copy,
                   new_dirs_to_copy, dirs_to_remove, dirs_to_process,
                   new_dirs_to_process, cur, entries, files_removed,
                   results_len, total_size, progress, xfer, notes>>

\* ops.rs 277-289: the state the handler is shown for an attempt's outcome
\* a classification that takes every error for Other
StateNeverExists(error, file, dest) ==
    IF error = NoError
    THEN [state |-> "Normal", conflict |-> NoConflict, error |-> NoError]
    ELSE [state |-> "Other", conflict |-> NoConflict, error |-> error]

\* ops.rs 277-290: the state the outcome of the attempt is reported as
StateAfter(error, file, dest) ==
    IF error = NoError
    THEN [state |-> "Normal", conflict |-> NoConflict, error |-> NoError]
    ELSE IF is_already_exists_error(error)
    THEN [state |-> "Exists",
          conflict |-> [file_type |-> file.type, origin |-> file.path,
                        destination |-> dest],
          error |-> NoError]
    ELSE [state |-> "Other", conflict |-> NoConflict, error |-> error]

\* an update that counts the file into total_bytes as well
update_progress_and_total(p, error, file, dest) ==
    LET st == StateAfter(error, file, dest)
    IN [p EXCEPT !.state = st.state,
                 !.conflict = st.conflict,
                 !.error = st.error,
                 !.processed_bytes = p.processed_bytes + unwrap_or_0(file.size),
                 !.total_bytes = p.total_bytes + unwrap_or_0(file.size)]

\* an update that counts the bytes of the file twice
update_progress_doubled(p, error, file, dest) ==
    LET st == StateAfter(error, file, dest)
    IN [p EXCEPT !.state = st.state,
                 !.conflict = st.conflict,
                 !.error = st.error,
                 !.processed_bytes = p.processed_bytes + 2 * unwrap_or_0(file.size)]

\* ops.rs 268-293: update_and_notify_progress_handler, up to the call of
\* the handler
update_progress(p, error, file, dest) ==
    LET st == StateAfter(error, file, dest)
    IN [p EXCEPT !.state = st.state,
                 !.conflict = st.conflict,
                 !.error = st.error,
                 !.processed_bytes = p.processed_bytes + unwrap_or_0(file.size)]

\* what is recorded of a notification: the snapshot passed to the handler,
\* the transfer it is about (file, destination, the call attempted),
\* whether the attempt succeeded, how many backend calls had been issued,
\* and (once given) the handler's response
Note(snapshot, transfer, ok, issued) ==
    [progress |-> snapshot, path |-> transfer.file.path,
     dest |-> transfer.dest, kind |-> transfer.kind, ok |-> ok,
     issued |-> issued, response |-> "none"]

\* where the operation goes on after a transfer
Resume == IF xfer.nested THEN "entries"
          ELSE IF HasProgress(req.op) THEN "files" ELSE "paths"

\* an engine that calls the handler only when the attempt failed
TransferredQuietly(error, issued) ==
    IF HasProgress(req.op) /\ ~xfer.retry /\ error # NoError
    THEN LET snapshot == update_progress(progress, error, xfer.file, xfer.dest)
         IN /\ progress' = snapshot
            /\ notes' = Append(notes, Note(snapshot, xfer, FALSE, issued))
            /\ pc' = "handler"
            /\ UNCHANGED result
    ELSE /\ UNCHANGED <<progress, notes>>
         /\ IF error # NoError THEN Finish(Err(error))
            ELSE pc' = Resume /\ UNCHANGED result

\* ops.rs 112-118 (`?`), 348-359, 306 (`?`): what follows the attempt of a
\* transfer that ended with error (NoError on success) after issued calls.
\* The first attempt of a progress-tracked operation is reported to the
\* handler; any other attempt's error ends the operation.
Transferred(error, issued) ==
    IF HasProgress(req.op) /\ ~xfer.retry
    THEN LET snapshot == update_progress(progress, error, xfer.file, xfer.dest)
         IN /\ progress' = snapshot
            /\ notes' = Append(notes, Note(snapshot, xfer, error = NoError,
                                           issued))
            /\ pc' = "handler"
            /\ UNCHANGED result
    ELSE /\ UNCHANGED <<progress, notes>>
         /\ IF error # NoError THEN Finish(Err(error))
            ELSE pc' = Resume /\ UNCHANGED result

\* backend.move_file / backend.copy_file on the operation's first
\* (from_backend, or only) backend
TransferFile ==
    /\ pc = "transfer"
    /\ xfer.kind \in {"move_file", "copy_file"}
    /\ \E inj \in Injections :
        LET c == IF xfer.kind = "move_file"
                 THEN CallMoveFile(xfer.file.path, xfer.dest, xfer.overwrite)
                 ELSE CallCopyFile(xfer.file.path, xfer.dest, xfer.overwrite)
            c1 == Invoke(Context(inj), FromBackend, c)
        IN /\ Commit(c1)
           /\ Transferred(c1.err, Len(c1.log))
    /\ UNCHANGED <<fs0, tasks, reference, arg, ret, req, paths, dirs_to_copy, new_dirs_to_copy,
                   dirs_to_remove, dirs_to_process, new_dirs_to_process, cur,
                   entries, files_removed, results_len, total_size, xfer>>

\* ops.rs 972-973: copy_file_between reads the source file
TransferRead ==
    /\ pc = "transfer"
    /\ xfer.kind \in {"move_file_between", "copy_file_between"}
    /\ \E inj \in Injections :
        LET c1 == Invoke(Context(inj), FromBackend,
                         CallRetrieveFileContent(xfer.file.path))
        IN /\ Commit(c1)
           /\ IF Failed(c1)
              THEN Transferred(c1.err, Len(c1.log)) /\ UNCHANGED xfer
              ELSE /\ xfer' = [xfer EXCEPT !.contents = c1.val]
                   /\ pc' = "create_file"
                   /\ UNCHANGED <<result, progress, notes>>
    /\ UNCHANGED <<fs0, tasks, reference, arg, ret, req, paths, dirs_to_copy, new_dirs_to_copy,
                   dirs_to_remove, dirs_to_process, new_dirs_to_process, cur,
                   entries, files_removed, results_len, total_size>>

\* a move that removes the source whatever the write returned
RemovesSourceAnyway(kind, error) == kind = "move_file_between"

\* ops.rs 961-962: the `?` after copy_file_between lets move_file_between
\* reach remove_file only when the write succeeded
RemovesSource(kind, error) == error = NoError /\ kind = "move_file_between"

\* ops.rs 974-976: copy_file_between writes the file to to_backend;
\* ops.rs 960: move_file_between goes on to remove the source
TransferWrite ==
    /\ pc = "create_file"
    /\ \E inj \in Injections :
        LET c1 == Invoke(Context(inj), 2,
                         CallCreateFile(xfer.dest, xfer.overwrite, xfer.contents))
        IN /\ Commit(c1)
           /\ IF RemovesSource(xfer.kind, c1.err)
              THEN /\ pc' = "remove_file"
                   /\ UNCHANGED <<result, progress, notes>>
              ELSE Transferred(c1.err, Len(c1.log))
    /\ UNCHANGED <<fs0, tasks, reference, arg, ret, req, paths, dirs_to_copy, new_dirs_to_copy,
                   dirs_to_remove, dirs_to_process, new_dirs_to_process, cur,
                   entries, files_removed, results_len, total_size, xfer>>

\* ops.rs 961: move_file_between removes the source file
TransferRemove ==
    /\ pc = "remove_file"
    /\ \E inj \in Injections :
        LET c1 == Invoke(Context(inj), FromBackend, CallRemoveFile(xfer.file.path))
        IN /\ Commit(c1)
           /\ Transferred(c1.err, Len(c1.log))
    /\ UNCHANGED <<fs0, tasks, reference, arg, ret, req, paths, dirs_to_copy, new_dirs_to_copy,
                   dirs_to_remove, dirs_to_process, new_dirs_to_process, cur,
                   entries, files_removed, results_len, total_size, xfer>>

Responses == {"ContinueOrAbort", "Skip", "Overwrite", "Abort"}

\* an Abort that is reported as an error
AbortIsError(response, p) ==
    CASE response = "ContinueOrAbort" ->
            IF p.state = "Exists"
            THEN [do |-> "return", result |-> Err(FileAlreadyExists(p.conflict.destination))]
            ELSE IF p.state = "Other"
            THEN [do |-> "return", result |-> Err(p.error)]
            ELSE [do |-> "continue", result |-> Running]
      [] response = "Skip" -> [do |-> "continue", result |-> Running]
      [] response = "Overwrite" -> [do |-> "overwrite", result |-> Running]
      [] response = "Abort" -> [do |-> "return", result |-> Err(StdIO("Interrupted"))]

\* an Abort that goes on with the next item
AbortContinues(response, p) ==
    CASE response = "ContinueOrAbort" ->
            IF p.state = "Exists"
            THEN [do |-> "return", result |-> Err(FileAlreadyExists(p.conflict.destination))]
            ELSE IF p.state = "Other"
            THEN [do |-> "return", result |-> Err(p.error)]
            ELSE [do |-> "continue", result |-> Running]
      [] response = "Skip" -> [do |-> "continue", result |-> Running]
      [] response = "Overwrite" -> [do |-> "overwrite", result |-> Running]
      [] response = "Abort" -> [do |-> "continue", result |-> Running]

\* a ContinueOrAbort that goes on whatever the state
ContinueIgnoresError(response, p) ==
    CASE response \in {"ContinueOrAbort", "Skip"} ->
            [do |-> "continue", result |-> Running]
      [] response = "Overwrite" -> [do |-> "overwrite", result |-> Running]
      [] response = "Abort" -> [do |-> "return", result |-> Ok]

\* a Skip that tries the transfer once more
SkipRetries(response, p) ==
    CASE response = "ContinueOrAbort" ->
            IF p.state = "Exists"
            THEN [do |-> "return", result |-> Err(FileAlreadyExists(p.conflict.destination))]
            ELSE IF p.state = "Other"
            THEN [do |-> "return", result |-> Err(p.error)]
            ELSE [do |-> "continue", result |-> Running]
      [] response \in {"Skip", "Overwrite"} -> [do |-> "overwrite", result |-> Running]
      [] response = "Abort" -> [do |-> "return", result |-> Ok]

\* ops.rs 295-310: what a response makes the operation do: "return" its
\* result, issue the "overwrite" transfer, or "continue" with the next item
Resolution(response, p) ==
    CASE response = "ContinueOrAbort" ->
            IF p.state = "Exists"
            THEN [do |-> "return", result |-> Err(FileAlreadyExists(p.conflict.destination))]
            ELSE IF p.state = "Other"
            THEN [do |-> "return", result |-> Err(p.error)]
            ELSE [do |-> "continue", result |-> Running]
      [] response = "Skip" -> [do |-> "continue", result |-> Running]
      [] response = "Overwrite" -> [do |-> "overwrite", result |-> Running]
      [] response = "Abort" -> [do |-> "return", result |-> Ok]

\* ops.rs 292, 361-365 (and their copies): the handler returns its
\* response and the operation resolves it
HandlerResponds ==
    /\ pc = "handler"
    /\ \E response \in Responses :
        LET r == Resolution(response, progress)
        IN /\ notes' = [notes EXCEPT ![Len(notes)].response = response]
           /\ IF r.do = "return" THEN Finish(r.result) /\ UNCHANGED xfer
              ELSE IF r.do = "overwrite"
              THEN /\ xfer' = [xfer EXCEPT
                                  !.kind = OverwriteOp(req.op, xfer.nested),
                                  !.overwrite = TRUE, !.retry = TRUE]
                   /\ pc' = "transfer"
                   /\ UNCHANGED result
              ELSE /\ pc' = Resume
                   /\ UNCHANGED <<result, xfer>>
    /\ UNCHANGED <<fs, fs0, tasks, reference, arg, ret, calls, fault, req, paths, dirs_to_copy,
                   new_dirs_to_copy, dirs_to_remove, dirs_to_process,
                   new_dirs_to_process, cur, entries, files_removed,
                   results_len, total_size, progress>>

\* a create_dir whose every error ends the operation
CreateDirAlwaysFails(error) == error # NoError

\* whether a create_dir error ends the operation (ops.rs 134-138)
CreateDirFails(error) == error # NoError /\ ~is_already_exists_error(error)

\* ops.rs 129-138 (and their copies): the next directory of the layer is
\* created at the destination
CreateDestDir ==
    /\ pc = "dirs"
    /\ dirs_to_copy # <<>>
    /\ \E inj \in Injections :
        LET dir == Head(dirs_to_copy)
            parent_dirs == dir[2]
            dir_name == extract_lowest_path_item(dir[1])
            to_dir_path == JoinDir(req.to, parent_dirs, dir_name)
            c1 == Invoke(Context(inj), ToBackend(req.op), CallCreateDir(to_dir_path))
        IN /\ Len(to_dir_path) <= MaxDepth
           /\ Commit(c1)
           /\ cur' = [path |-> dir[1], parent_dirs |-> parent_dirs,
                      dir_name |-> dir_name, to_dir_path |-> to_dir_path]
           /\ IF CreateDirFails(c1.err) THEN Finish(Err(c1.err))
              ELSE pc' = "read_dir" /\ UNCHANGED result
    /\ dirs_to_copy' = Tail(dirs_to_copy)
    /\ UNCHANGED <<fs0, tasks, reference, arg, ret, req, paths, new_dirs_to_copy, dirs_to_remove,
                   dirs_to_process, new_dirs_to_process, entries,
                   files_removed, results_len, total_size, progress, xfer,
                   notes>>

\* ops.rs 140 (and its copies): the directory is listed at the source
ListSourceDir ==
    /\ pc = "read_dir"
    /\ \E inj \in Injections :
        LET c1 == Invoke(Context(inj), FromBackend, CallReadDir(cur.path))
        IN /\ Commit(c1)
           /\ IF Failed(c1) THEN Finish(Err(c1.err)) /\ UNCHANGED entries
              ELSE /\ entries' = c1.val
                   /\ pc' = "entries"
                   /\ UNCHANGED result
    /\ UNCHANGED <<fs0, tasks, reference, arg, ret, req, paths, dirs_to_copy, new_dirs_to_copy,
                   dirs_to_remove, dirs_to_process, new_dirs_to_process, cur,
                   files_removed, results_len, total_size, progress, xfer,
                   notes>>

\* ops.rs 140-152 (and their copies): one entry of the listing
NestedEntry ==
    /\ pc = "entries"
    /\ entries # <<>>
    /\ LET file == Head(entries)
       IN Dispatched(file, JoinName(cur.to_dir_path, file.name), TRUE,
                     "new_dirs_to_copy",
                     <<file.path, Append(cur.parent_dirs, cur.dir_name)>>)
    /\ entries' = Tail(entries)
    /\ UNCHANGED <<fs, fs0, tasks, reference, arg, ret, calls, fault, req, paths, dirs_to_remove,
                   dirs_to_process, new_dirs_to_process, cur, files_removed,
                   results_len, total_size, progress, notes>>

\* a move that notes no directory for removal
NeverNoted(op, dirs, path) == dirs

\* ops.rs 154: a move notes the directory it has gone through for removal
NotedForRemoval(op, dirs, path) ==
    IF IsMove(op) THEN Append(dirs, path) ELSE dirs

\* ops.rs 153-155: the listing is exhausted
DirDone ==
    /\ pc = "entries"
    /\ entries = <<>>
    /\ pc' = "dirs"
    /\ dirs_to_remove' = NotedForRemoval(req.op, dirs_to_remove, cur.path)
    /\ UNCHANGED <<fs, fs0, tasks, reference, arg, ret, calls, fault, req, result, paths, dirs_to_copy,
                   new_dirs_to_copy, dirs_to_process, new_dirs_to_process, cur,
                   entries, files_removed, results_len, total_size, progress,
                   xfer, notes>>

\* ops.rs 126-127, 157-158, 229: the layer is exhausted
LayerDone ==
    /\ pc = "dirs"
    /\ dirs_to_copy = <<>>
    /\ dirs_to_copy' = new_dirs_to_copy
    /\ new_dirs_to_copy' = <<>>
    /\ IF new_dirs_to_copy # <<>> THEN UNCHANGED <<pc, result>>
       ELSE IF IsMove(req.op) THEN pc' = "remove_dirs" /\ UNCHANGED result
       ELSE Finish(Ok)
    /\ UNCHANGED <<fs, fs0, tasks, reference, arg, ret, calls, fault, req, paths, dirs_to_remove,
                   dirs_to_process, new_dirs_to_process, cur, entries,
                   files_removed, results_len, total_size, progress, xfer,
                   notes>>

\* a pop that takes the directory noted first
PopFirst(dirs) == [dir |-> Head(dirs), rest |-> Tail(dirs)]

\* ops.rs 160: dirs_to_remove.pop() takes the directory noted last
Pop(dirs) == [dir |-> Last(dirs), rest |-> Front(dirs)]

\* ops.rs 160-162 (and 423-425, 617-619, 827-829): a move removes the
\* source directories, the last one noted first
RemoveSourceDir ==
    /\ pc = "remove_dirs"
    /\ dirs_to_remove # <<>>
    /\ \E inj \in Injections :
        LET c1 == Invoke(Context(inj), FromBackend,
                         CallRemoveDir(Pop(dirs_to_remove).dir))
        IN /\ Commit(c1)
           /\ IF Failed(c1) THEN Finish(Err(c1.err))
              ELSE UNCHANGED <<pc, result>>
    /\ dirs_to_remove' = Pop(dirs_to_remove).rest
    /\ UNCHANGED <<fs0, tasks, reference, arg, ret, req, paths, dirs_to_copy, new_dirs_to_copy,
                   dirs_to_process, new_dirs_to_process, cur, entries,
                   files_removed, results_len, total_size, progress, xfer,
                   notes>>

\* ops.rs 164: no source directory is left to remove
RemoveDone ==
    /\ pc = "remove_dirs"
    /\ dirs_to_remove = <<>>
    /\ Finish(Ok)
    /\ UNCHANGED <<fs, fs0, tasks, reference, arg, ret, calls, fault, req, paths, dirs_to_copy,
                   new_dirs_to_copy, dirs_to_remove, dirs_to_process,
                   new_dirs_to_process, cur, entries, files_removed,
                   results_len, total_size, progress, xfer, notes>>

---------------------------------------------------------------------------
(* The states an operation can be called in *)

SrcRoot == <<"s">>

DstRoot == <<"d">>

DirsOf(t) == {p \in t : TypeOfName(Last(p)) = "Dir"}

\* every tree obtained from one of ts by adding at most one entry
Grow(ts, names) ==
    ts \cup UNION {{t \cup {Append(d, n)} : d \in {<<>>} \cup DirsOf(t), n \in names} : t \in ts}

\* the trees (sets of relative paths, closed under parent) of at most n
\* entries whose names are drawn from names
RECURSIVE Trees(_, _)
Trees(names, n) == IF n = 0 THEN {{}} ELSE Grow(Trees(names, n - 1), names)

Under(root, t) == {root \o p : p \in t}

\* a file system holding "/", and the tree t under root when there is one
MakeFs(root, t, hasRoot, entry) ==
    [p \in {<<>>} \cup (IF hasRoot THEN {root} \cup Under(root, t) ELSE {}) |->
        IF p = <<>> \/ p = root THEN DirEntry
        ELSE IF entry = "source" THEN SourceEntry(Last(p))
        ELSE DestEntry(Last(p))]

Merge(f, g) == [p \in DOMAIN f \cup DOMAIN g |-> IF p \in DOMAIN f THEN f[p] ELSE g[p]]

TopLevel(f, root, order) == SortedPaths(Children(f, root), order)

Orders == {"asc", "desc"}

Request(op, from, to, order) == [op |-> op, from |-> from, to |-> to, order |-> order]

\* no run to compare with
NoReference == [result |-> Running, fs |-> <<>>]

\* no conversion was called
NoArg == [mode |-> 0, path |-> <<>>]

NoRet == [permissions |-> <<>>, mode |-> 0, item |-> <<>>, rest |-> <<>>]

\* the locals of an operation that has not started
OperationLocals ==
    /\ calls = <<>>
    /\ result = Running
    /\ paths = req.from
    /\ dirs_to_copy = <<>>
    /\ new_dirs_to_copy = <<>>
    /\ dirs_to_remove = <<>>
    /\ dirs_to_process = <<>>
    /\ new_dirs_to_process = <<>>
    /\ cur = NoDir
    /\ entries = <<>>
    /\ files_removed = 0
    /\ results_len = 0
    /\ total_size = 0
    /\ progress = NoProgress
    /\ xfer = NoTransfer
    /\ notes = <<>>
    /\ reference = NoReference

\* no operation has started and no conversion was called
InitLocals ==
    /\ OperationLocals
    /\ arg = NoArg
    /\ ret = NoRet

RemoveNames == {"a", "b", "f"}

\* remove_all is called on the top-level entries of a tree under /s
InitRemove ==
    /\ \E t \in Trees(RemoveNames, MaxNodes) \ {{}}, order \in Orders :
        LET f == MakeFs(SrcRoot, t, TRUE, "source")
        IN /\ fs = <<f, MakeFs(DstRoot, {}, FALSE, "dest")>>
           /\ req = Request("remove_all", TopLevel(f, SrcRoot, order), <<>>, order)
    /\ fs0 = fs
    /\ fault \in BOOLEAN
    /\ pc = "remove_all"
    /\ InitLocals
    /\ tasks = <<>>

TransferNames == {"a", "b", "f", "l", "k"}

\* what the destination root holds before the call: nothing, a file, a
\* directory, a directory with a file
DestTrees ==
    {{}, {<<"f">>}, {<<"a">>}, {<<"a">>, <<"a", "f">>}}

\* the destination root is missing, or holds a tree of earlier entries
DestStates ==
    {[exists |-> FALSE, tree |-> {}]}
        \cup {[exists |-> TRUE, tree |-> t] : t \in DestTrees}

\* op is called to bring the top-level entries of the tree t under /s to
\* /d, which is in state dst: on the to_backend of a two-backend
\* operation, beside /s on the only backend otherwise
Called(op, t, dst, order) ==
    LET src == MakeFs(SrcRoot, t, TRUE, "source")
        dest == MakeFs(DstRoot, dst.tree, dst.exists, "dest")
    IN /\ fs = IF IsBetween(op) THEN <<src, dest>>
               ELSE <<Merge(src, dest), MakeFs(DstRoot, {}, FALSE, "dest")>>
       /\ req = Request(op, TopLevel(src, SrcRoot, order), DstRoot, order)
       /\ fs0 = fs
       /\ pc = "exists"
       /\ InitLocals
       /\ tasks = <<>>

Init ==
    /\ \E op \in Ops, t \in Trees(TransferNames, MaxNodes) \ {{}},
          dst \in DestStates, order \in Orders :
        Called(op, t, dst, order)
    /\ fault = FALSE

Next ==
    \/ CheckDestination
    \/ TotalSizeRetrieve
    \/ TotalSizeReadDir
    \/ TotalSizeLayerDone
    \/ TopLevelPath
    \/ TopLevelRetrieve
    \/ TopLevelFile
    \/ TopLevelDone
    \/ TransferFile
    \/ TransferRead
    \/ TransferWrite
    \/ TransferRemove
    \/ HandlerResponds
    \/ CreateDestDir
    \/ ListSourceDir
    \/ NestedEntry
    \/ DirDone
    \/ LayerDone
    \/ RemoveSourceDir
    \/ RemoveDone

Spec == Init /\ [][Next]_vars

---------------------------------------------------------------------------
(* An operation and its progress-tracked counterpart on the same state *)

\* the progress-tracked variant of an operation
WithProgress(op) ==
    CASE op = "move_files" -> "move_files_with_progress"
      [] op = "copy_files" -> "copy_files_with_progress"
      [] op = "move_files_between" -> "move_files_between_with_progress"
      [] op = "copy_files_between" -> "copy_files_between_with_progress"

\* an operation without progress is called
InitPair ==
    /\ \E op \in {o \in Ops : ~HasProgress(o)},
          t \in Trees(TransferNames, MaxNodes) \ {{}},
          dst \in DestStates, order \in Orders :
        Called(op, t, dst, order)
    /\ fault = FALSE

\* the handler of the progress-tracked run always returns ContinueOrAbort
HandlerContinues ==
    /\ HandlerResponds
    /\ notes'[Len(notes)].response = "ContinueOrAbort"

\* once the operation has returned, its outcome is kept and its
\* progress-tracked variant is called with the same arguments on the state
\* the operation had started from
RunCounterpart ==
    /\ pc = "done"
    /\ ~HasProgress(req.op)
    /\ reference = NoReference
    /\ reference' = [result |-> result, fs |-> fs]
    /\ fs' = fs0
    /\ req' = [req EXCEPT !.op = WithProgress(req.op)]
    /\ pc' = "exists"
    /\ calls' = <<>>
    /\ result' = Running
    /\ paths' = req.from
    /\ dirs_to_copy' = <<>>
    /\ new_dirs_to_copy' = <<>>
    /\ dirs_to_remove' = <<>>
    /\ dirs_to_process' = <<>>
    /\ new_dirs_to_process' = <<>>
    /\ cur' = NoDir
    /\ entries' = <<>>
    /\ files_removed' = 0
    /\ results_len' = 0
    /\ total_size' = 0
    /\ progress' = NoProgress
    /\ xfer' = NoTransfer
    /\ notes' = <<>>
    /\ UNCHANGED <<fs0, tasks, fault, arg, ret>>

NextPair ==
    \/ CheckDestination
    \/ TotalSizeRetrieve
    \/ TotalSizeReadDir
    \/ TotalSizeLayerDone
    \/ TopLevelPath
    \/ TopLevelRetrieve
    \/ TopLevelFile
    \/ TopLevelDone
    \/ TransferFile
    \/ TransferRead
    \/ TransferWrite
    \/ TransferRemove
    \/ HandlerContinues
    \/ CreateDestDir
    \/ ListSourceDir
    \/ NestedEntry
    \/ DirDone
    \/ LayerDone
    \/ RemoveSourceDir
    \/ RemoveDone
    \/ RunCounterpart

SpecPair == InitPair /\ [][NextPair]_vars

---------------------------------------------------------------------------
(* A copy whose destination is one of its own source directories *)

SelfNames == {"a", "b", "f"}

\* the directories at or below the input /s/a of a tree under /s
SelfDestinations(t) ==
    {p \in Under(SrcRoot, DirsOf(t)) : IsPrefix(<<"s", "a">>, p)}

\* copy_files or copy_files_with_progress is called on the directory /s/a
\* with a destination root that is /s/a or a directory inside it
InitSelf ==
    /\ \E op \in {"copy_files", "copy_files_with_progress"},
          t \in {u \in Trees(SelfNames, MaxNodes) : <<"a">> \in u},
          order \in Orders :
        \E to \in SelfDestinations(t) :
            /\ fs = <<MakeFs(SrcRoot, t, TRUE, "source"),
                      MakeFs(DstRoot, {}, FALSE, "dest")>>
            /\ req = Request(op, <<<<"s", "a">>>>, to, order)
    /\ fs0 = fs
    /\ fault = FALSE
    /\ pc = "exists"
    /\ InitLocals
    /\ tasks = <<>>

NextSelf ==
    \/ CheckDestination
    \/ TotalSizeRetrieve
    \/ TotalSizeReadDir
    \/ TotalSizeLayerDone
    \/ TopLevelPath
    \/ TopLevelRetrieve
    \/ TopLevelFile
    \/ TopLevelDone
    \/ TransferFile
    \/ HandlerResponds
    \/ CreateDestDir
    \/ ListSourceDir
    \/ NestedEntry
    \/ DirDone
    \/ LayerDone

SpecSelf == InitSelf /\ [][NextSelf]_vars

---------------------------------------------------------------------------
(* Unix permissions (unix.rs) *)

\* the largest mode converted
MaxMode == 511

\* unix.rs 8-20: the flags, 0o400 down to 0o1
OWNER_READ == 256
OWNER_WRITE == 128
OWNER_EXEC == 64
GROUP_READ == 32
GROUP_WRITE == 16
GROUP_EXEC == 8
OTHER_READ == 4
OTHER_WRITE == 2
OTHER_EXEC == 1

Flags ==
    <<OWNER_READ, OWNER_WRITE, OWNER_EXEC, GROUP_READ, GROUP_WRITE,
      GROUP_EXEC, OTHER_READ, OTHER_WRITE, OTHER_EXEC>>

\* bitflags' contains, for a flag of one bit
contains(value, flag) == (value \div flag) % 2 = 1

\* bitflags' set: the flag's bit is inserted or removed
set(value, flag, on) ==
    IF on THEN (IF contains(value, flag) THEN value ELSE value + flag)
    ELSE (IF contains(value, flag) THEN value - flag ELSE value)

RECURSIVE KnownBits(_, _)
\* the bits of a value that are among the first n flags
KnownBits(bits, n) ==
    IF n = 0 THEN 0
    ELSE KnownBits(bits, n - 1)
            + (IF contains(bits, Flags[n]) THEN Flags[n] ELSE 0)

\* bitflags' from_bits_truncate: the bits that are no flag are dropped
from_bits_truncate(bits) == KnownBits(bits, Len(Flags))

\* unix.rs 82-88
UnixFileActions(read, write, execute) ==
    [read |-> read, write |-> write, execute |-> execute]

\* unix.rs 30-50: From<UnixFilePermissionFlags> for UnixFilePermissions
PermissionsFromFlags(value) ==
    [owner |-> UnixFileActions(contains(value, OWNER_READ),
                               contains(value, OWNER_WRITE),
                               contains(value, OWNER_EXEC)),
     group |-> UnixFileActions(contains(value, GROUP_READ),
                               contains(value, OWNER_WRITE),
                               contains(value, OWNER_EXEC)),
     other |-> UnixFileActions(contains(value, OTHER_READ),
                               contains(value, OTHER_WRITE),
                               contains(value, OWNER_EXEC))]

\* unix.rs 52-68: From<UnixFilePermissions> for UnixFilePermissionFlags
FlagsFromPermissions(permissions) ==
    LET f1 == set(0, OWNER_READ, permissions.owner.read)
        f2 == set(f1, OWNER_WRITE, permissions.owner.write)
        f3 == set(f2, OWNER_EXEC, permissions.owner.execute)
        f4 == set(f3, GROUP_READ, permissions.group.read)
        f5 == set(f4, GROUP_WRITE, permissions.group.write)
        f6 == set(f5, GROUP_EXEC, permissions.group.execute)
        f7 == set(f6, OTHER_READ, permissions.other.read)
        f8 == set(f7, OTHER_WRITE, permissions.other.write)
    IN set(f8, OTHER_EXEC, permissions.other.execute)

\* unix.rs 70-74: From<u32> for UnixFilePermissions
PermissionsFromMode(mode) == PermissionsFromFlags(from_bits_truncate(mode))

\* unix.rs 76-80: From<UnixFilePermissions> for u32
ModeFromPermissions(permissions) == FlagsFromPermissions(permissions)

\* no operation on a backend is under way
NoBackendUse ==
    /\ fs = <<MakeFs(SrcRoot, {}, FALSE, "source"),
              MakeFs(DstRoot, {}, FALSE, "dest")>>
    /\ fs0 = fs
    /\ fault = FALSE
    /\ OperationLocals
    /\ tasks = <<>>

\* a mode is about to be converted
InitUnix ==
    /\ \E mode \in 0..MaxMode : arg = [NoArg EXCEPT !.mode = mode]
    /\ ret = NoRet
    /\ req = Request("UnixFilePermissions", <<>>, <<>>, "asc")
    /\ pc = "from_u32"
    /\ NoBackendUse

\* UnixFilePermissions::from(mode)
UnixFromMode ==
    /\ pc = "from_u32"
    /\ ret' = [ret EXCEPT !.permissions = PermissionsFromMode(arg.mode)]
    /\ pc' = "into_u32"
    /\ UNCHANGED <<fs, fs0, tasks, reference, arg, calls, fault, req, result,
                   paths, dirs_to_copy, new_dirs_to_copy, dirs_to_remove,
                   dirs_to_process, new_dirs_to_process, cur, entries,
                   files_removed, results_len, total_size, progress, xfer,
                   notes>>

\* u32::from(permissions)
UnixIntoMode ==
    /\ pc = "into_u32"
    /\ ret' = [ret EXCEPT !.mode = ModeFromPermissions(ret.permissions)]
    /\ pc' = "done"
    /\ UNCHANGED <<fs, fs0, tasks, reference, arg, calls, fault, req, result,
                   paths, dirs_to_copy, new_dirs_to_copy, dirs_to_remove,
                   dirs_to_process, new_dirs_to_process, cur, entries,
                   files_removed, results_len, total_size, progress, xfer,
                   notes>>

NextUnix ==
    \/ UnixFromMode
    \/ UnixIntoMode

SpecUnix == InitUnix /\ [][NextUnix]_vars

---------------------------------------------------------------------------
(* Path strings (util.rs) *)

\* the longest path string, in characters
MaxLen == 4

\* std::path::MAIN_SEPARATOR
MAIN_SEPARATOR == "/"

\* the characters a path string is drawn from; "é" takes two bytes in UTF-8
Chars == {MAIN_SEPARATOR, "a", "é"}

\* the strings of at most n characters
Strings(n) == UNION {[1..k -> Chars] : k \in 0..n}

\* what Option::unwrap leaves of a call when the option is None
Panic == <<"panic">>

\* char::len_utf8
len_utf8(c) == IF c = "é" THEN 2 ELSE 1

RECURSIVE ByteLength(_)
\* str::len: the length in bytes
ByteLength(s) == IF s = <<>> THEN 0 ELSE len_utf8(Head(s)) + ByteLength(Tail(s))

\* s.chars().count(): the length in characters
CharCount(s) == Len(s)

\* s.chars().rev().position(|c| c == char): how many characters follow the
\* last occurrence, -1 for None
RevPosition(s, char) ==
    IF \A i \in 1..Len(s) : s[i] # char THEN -1
    ELSE Len(s) - (CHOOSE i \in 1..Len(s) :
                      s[i] = char /\ \A j \in (i + 1)..Len(s) : s[j] # char)

\* util.rs 3-9: the number of characters before the last occurrence of
\* char, -1 for None
rfind_utf8(s, char) ==
    IF RevPosition(s, char) # -1
    THEN CharCount(s) - RevPosition(s, char) - 1
    ELSE -1

RECURSIVE Split(_, _, _)
\* str::split: the pieces of s between the separators, given the pieces
\* before and the piece under way
Split(s, pieces, piece) ==
    IF s = <<>> THEN Append(pieces, piece)
    ELSE IF Head(s) = MAIN_SEPARATOR
    THEN Split(Tail(s), Append(pieces, piece), <<>>)
    ELSE Split(Tail(s), pieces, Append(piece, Head(s)))

NonEmpty(piece) == piece # <<>>

\* util.rs 11-21 on a string: the last piece that is not empty
ExtractLowestPathItem(path) ==
    IF path = <<MAIN_SEPARATOR>> THEN path
    ELSE LET pieces == SelectSeq(Split(path, <<>>, <<>>), NonEmpty)
         IN IF pieces = <<>> THEN Panic ELSE pieces[Len(pieces)]

\* util.rs 23-27 on a string: the characters before the last separator
RemoveLowestPathItem(path) ==
    IF rfind_utf8(path, MAIN_SEPARATOR) = -1 THEN Panic
    ELSE SubSeq(path, 1, rfind_utf8(path, MAIN_SEPARATOR))

\* a path string is about to be taken apart
InitUtil ==
    /\ \E path \in Strings(MaxLen) : arg = [NoArg EXCEPT !.path = path]
    /\ ret = NoRet
    /\ req = Request("util", <<>>, <<>>, "asc")
    /\ pc = "extract_lowest_path_item"
    /\ NoBackendUse

\* extract_lowest_path_item(path)
UtilExtract ==
    /\ pc = "extract_lowest_path_item"
    /\ ret' = [ret EXCEPT !.item = ExtractLowestPathItem(arg.path)]
    /\ pc' = "remove_lowest_path_item"
    /\ UNCHANGED <<fs, fs0, tasks, reference, arg, calls, fault, req, result,
                   paths, dirs_to_copy, new_dirs_to_copy, dirs_to_remove,
                   dirs_to_process, new_dirs_to_process, cur, entries,
                   files_removed, results_len, total_size, progress, xfer,
                   notes>>

\* remove_lowest_path_item(path)
UtilRemove ==
    /\ pc = "remove_lowest_path_item"
    /\ ret' = [ret EXCEPT !.rest = RemoveLowestPathItem(arg.path)]
    /\ pc' = "done"
    /\ UNCHANGED <<fs, fs0, tasks, reference, arg, calls, fault, req, result,
                   paths, dirs_to_copy, new_dirs_to_copy, dirs_to_remove,
                   dirs_to_process, new_dirs_to_process, cur, entries,
                   files_removed, results_len, total_size, progress, xfer,
                   notes>>

NextUtil ==
    \/ UtilExtract
    \/ UtilRemove

SpecUtil == InitUtil /\ [][NextUtil]_vars

FiveNames == {"f", "g", "h", "i", "j"}

\* five files, given as the inputs or lying in the one input directory
FiveTrees ==
    {{<<n>> : n \in FiveNames},
     {<<"a">>} \cup {<<"a", n>> : n \in FiveNames}}

\* the destination holds nothing, or a file where the source's h is to go
FiveDestTrees ==
    {{}, {<<"h">>}, {<<"a">>, <<"a", "h">>}}

InitFive ==
    /\ \E op \in Ops, t \in FiveTrees, d \in FiveDestTrees, order \in Orders :
        Called(op, t, [exists |-> TRUE, tree |-> d], order)
    /\ fault = FALSE

SpecFive == InitFive /\ [][Next]_vars

SizeNames == {"a", "f", "g", "l"}

\* calculate_total_size is called on any entries of a tree under /s
InitSize ==
    /\ \E t \in Trees(SizeNames, MaxNodes) \ {{}}, order \in Orders :
        LET f == MakeFs(SrcRoot, t, TRUE, "source")
        IN /\ fs = <<f, MakeFs(DstRoot, {}, FALSE, "dest")>>
           /\ \E sel \in (SUBSET Under(SrcRoot, t)) \ {{}} :
                req = Request("calculate_total_size", SortedPaths(sel, order), <<>>, order)
    /\ fs0 = fs
    /\ fault \in BOOLEAN
    /\ pc = "calculate_total_size"
    /\ InitLocals
    /\ tasks = <<>>

NextSize ==
    \/ TotalSizeRetrieve
    \/ TotalSizeReadDir
    \/ TotalSizeLayerDone

SpecSize == InitSize /\ [][NextSize]_vars

NextRemove ==
    \/ RemoveAllPath
    \/ RemoveAllReadDir
    \/ RemoveAllEntry
    \/ RemoveAllDirDone
    \/ RemoveAllLayerDone

SpecRemove == InitRemove /\ [][NextRemove]_vars

FaultNames == {"a", "f"}

\* what the destination root holds before a call that may meet a failing
\* backend: nothing, a directory where a source directory is to go, a
\* file in it where a source file is to go
FaultDestTrees == {{}, {<<"a">>}, {<<"a">>, <<"a", "f">>}}

\* any of the eight operations, or remove_all, is called on a backend one
\* of whose calls may fail with an I/O error
InitFault ==
    /\ \/ \E op \in Ops, t \in Trees(FaultNames, MaxNodes) \ {{}},
             d \in FaultDestTrees, order \in Orders :
            Called(op, t, [exists |-> TRUE, tree |-> d], order)
       \/ \E t \in Trees(FaultNames, MaxNodes) \ {{}}, order \in Orders :
            LET f == MakeFs(SrcRoot, t, TRUE, "source")
            IN /\ fs = <<f, MakeFs(DstRoot, {}, FALSE, "dest")>>
               /\ req = Request("remove_all", TopLevel(f, SrcRoot, order), <<>>, order)
               /\ fs0 = fs
               /\ pc = "remove_all"
               /\ InitLocals
               /\ tasks = <<>>
    /\ fault = TRUE

SpecFault == InitFault /\ [][Next \/ NextRemove]_vars

\* the destination root holds a directory where a source directory is to go
\* and a file in it where a source file is to go
LiveDestTree == {<<"a">>, <<"a", "f">>}

\* any of the eight operations, remove_all or calculate_total_size is called
\* on the top-level entries of a tree under /s, on a backend one of whose
\* calls may fail
InitLive ==
    /\ \E t \in Trees(FaultNames, MaxNodes) \ {{}} :
        LET f == MakeFs(SrcRoot, t, TRUE, "source")
        IN \/ \E op \in Ops :
                Called(op, t, [exists |-> TRUE, tree |-> LiveDestTree], "asc")
           \/ \E op \in {"remove_all", "calculate_total_size"} :
                /\ fs = <<f, MakeFs(DstRoot, {}, FALSE, "dest")>>
                /\ req = Request(op, TopLevel(f, SrcRoot, "asc"), <<>>, "asc")
                /\ fs0 = fs
                /\ pc = op
                /\ InitLocals
                /\ tasks = <<>>
    /\ fault = TRUE

NextLive == Next \/ NextRemove

\* the future of an operation is polled until it returns: a step that can
\* be taken is eventually taken
SpecLive == InitLive /\ [][NextLive]_vars /\ WF_vars(NextLive)

---------------------------------------------------------------------------
(* The mutating calls of the three backends, one awaited I/O request per  *)
(* step, issued by one caller or by two callers at once on one backend    *)
(* (backends/std.rs 82-130, sftp.rs 96-148, ftp.rs 98-146).               *)

Backends == {"StdBackend", "SFTPBackend", "FTPBackend"}

MutatingCalls == {"create_file", "move_file", "copy_file", "rename_file"}

\* todo!() was reached: the call does not return
Panicked == [status |-> "panic", err |-> NoError]

\* util.rs remove_lowest_path_item: the path without its last segment
remove_lowest_path_item(path) == Front(path)

\* a call of a caller: `to` is the destination or, for rename_file, the new
\* name (as a path of one segment); `at` is the request the call is to
\* issue next
BackendTask(backend, op, path, to, overwrite, contents, at) ==
    [backend |-> backend, op |-> op, path |-> path, to |-> to,
     overwrite |-> overwrite, contents |-> contents, at |-> at,
     result |-> Running]

\* the path the call writes to (new_path in rename_file)
Destination(t) ==
    CASE t.op = "create_file" -> t.path
      [] t.op = "rename_file" -> JoinName(remove_lowest_path_item(t.path), t.to[1])
      [] OTHER -> t.to

\* whether the call goes through the backend's create_file
ThroughCreateFile(t) ==
    \/ t.op = "create_file"
    \/ t.op = "copy_file" /\ t.backend # "StdBackend"

\* `!overwrite && self.exists(..)`: the check is made only when overwrite
\* is false
CheckOrWrite(t) == IF t.overwrite THEN "write" ELSE "check"

\* the first request of a call: copy_file of SFTP and FTP reads the source
\* before create_file looks at the destination
FirstRequest(backend, op, overwrite) ==
    IF op = "copy_file" /\ backend # "StdBackend" THEN "read"
    ELSE IF overwrite THEN "write" ELSE "check"

Return(i, r) ==
    tasks' = [tasks EXCEPT ![i].at = "returned", ![i].result = r]

Proceed(i, at) == tasks' = [tasks EXCEPT ![i].at = at]

Unchanged ==
    UNCHANGED <<fs0, reference, arg, ret, calls, req, pc, result, paths, dirs_to_copy,
                new_dirs_to_copy, dirs_to_remove, dirs_to_process,
                new_dirs_to_process, cur, entries, files_removed,
                results_len, total_size, progress, xfer, notes>>

\* sftp.rs 141-142, ftp.rs 143: copy_file fetches the source's metadata and
\* content; FTP's retrieve_file_content is todo!()
BackendRead ==
    \E i \in 1..Len(tasks) :
        /\ tasks[i].at = "read"
        /\ LET t == tasks[i]
               r == retrieve_file_content(fs[1], t.path)
           IN IF t.backend = "FTPBackend" THEN Return(i, Panicked)
              ELSE IF r.err # NoError THEN Return(i, Err(r.err))
              ELSE tasks' = [tasks EXCEPT ![i].at = CheckOrWrite(t),
                                          ![i].contents = r.val]
        /\ UNCHANGED <<fs, fault>>
        /\ Unchanged

\* std.rs 88, sftp.rs 102, ftp.rs 104 (and the like in rename_file,
\* move_file, copy_file): self.exists(destination); FTP's exists is todo!()
BackendCheck ==
    \E i \in 1..Len(tasks) :
        /\ tasks[i].at = "check"
        /\ LET t == tasks[i]
               r == exists(fs[1], Destination(t))
           IN IF t.backend = "FTPBackend" THEN Return(i, Panicked)
              ELSE IF r.val THEN Return(i, Err(FileAlreadyExists(Destination(t))))
              ELSE Proceed(i, "write")
        /\ UNCHANGED <<fs, fault>>
        /\ Unchanged

\* the request that creates, renames or copies: File::create / session.create
\* leave an empty file whose content is written next, FTP's put_file stores
\* the content at once, rename and tokio::fs::copy are one request
BackendWrite ==
    \E i \in 1..Len(tasks) :
        /\ tasks[i].at = "write"
        /\ LET t == tasks[i]
               to == Destination(t)
               r == IF ThroughCreateFile(t)
                    THEN create_file(fs[1], to, TRUE,
                                     IF t.backend = "FTPBackend" THEN t.contents ELSE <<>>)
                    ELSE IF t.op = "copy_file" THEN copy_file(fs[1], t.path, to, TRUE)
                    ELSE move_file(fs[1], t.path, to, TRUE)
           IN /\ fs' = [fs EXCEPT ![1] = r.fs]
              /\ IF r.err # NoError THEN Return(i, Err(r.err))
                 ELSE IF ThroughCreateFile(t) /\ t.backend # "FTPBackend"
                 THEN Proceed(i, "contents")
                 ELSE Return(i, Ok)
        /\ UNCHANGED fault
        /\ Unchanged

\* std.rs 93-95 tokio::fs::write, sftp.rs 108-110 file.write_all: the
\* content is written to the file created before; a write the environment
\* fails returns its error and nothing else is done (`?`).  SFTP's
\* copy_file goes on to set the metadata.
BackendWriteContents ==
    \E i \in 1..Len(tasks), inj \in Injections :
        /\ tasks[i].at = "contents"
        /\ LET t == tasks[i]
               r == IF inj = 1 THEN Res(StdIO("Other"), fs[1], FALSE)
                    ELSE create_file(fs[1], Destination(t), TRUE, t.contents)
           IN /\ fs' = [fs EXCEPT ![1] = r.fs]
              /\ IF r.err # NoError THEN Return(i, Err(r.err))
                 ELSE IF t.op = "copy_file" THEN Proceed(i, "metadata")
                 ELSE Return(i, Ok)
        /\ fault' = (fault /\ inj # 1)
        /\ Unchanged

\* sftp.rs 145: copy_file sets the source's metadata on the destination
\* file; on an error it returns it and nothing else is done (`?`)
BackendSetMetadata ==
    \E i \in 1..Len(tasks), inj \in Injections :
        /\ tasks[i].at = "metadata"
        /\ LET to == Destination(tasks[i])
           IN IF inj = 1 THEN Return(i, Err(StdIO("Other")))
              ELSE IF to \notin DOMAIN fs[1] THEN Return(i, Err(StdIO("NotFound")))
              ELSE Return(i, Ok)
        /\ fault' = (fault /\ inj # 1)
        /\ UNCHANGED fs
        /\ Unchanged

\* the bytes a caller of create_file passes
NewContent == <<"n", "n">>

\* /s holds f, or f and g; /d is empty or holds a file f or a directory a
BackendSources == {{<<"f">>}, {<<"f">>, <<"g">>}}

BackendDests == {{}, {<<"f">>}, {<<"a">>}}

\* the calls a caller may make with a given overwrite flag: the source is
\* /s/f or the missing /s/h, the destination /d/f or /d/a, the new name g
\* or h
CallsOf(backend, overwrite) ==
    LET froms == {<<"s", "f">>, <<"s", "h">>}
        tos == {<<"d", "f">>, <<"d", "a">>}
        task(op, path, to) ==
            BackendTask(backend, op, path, to, overwrite,
                        IF op = "create_file" THEN NewContent ELSE <<>>,
                        FirstRequest(backend, op, overwrite))
    IN {task("create_file", to, <<>>) : to \in tos}
        \cup {task(op, from, to) :
                op \in {"move_file", "copy_file"}, from \in froms, to \in tos}
        \cup {task("rename_file", from, <<n>>) : from \in froms, n \in {"g", "h"}}

\* one caller makes a mutating call, or two callers make calls with
\* overwrite = false to the same destination at once; the environment may
\* fail one write of content or of metadata
InitBackend ==
    /\ \E src \in BackendSources, dst \in BackendDests :
        fs = <<Merge(MakeFs(SrcRoot, src, TRUE, "source"),
                     MakeFs(DstRoot, dst, TRUE, "dest")),
               MakeFs(DstRoot, {}, FALSE, "dest")>>
    /\ fs0 = fs
    /\ fault \in BOOLEAN
    /\ req = Request("backend", <<>>, <<>>, "asc")
    /\ pc = "backend"
    /\ InitLocals
    /\ \E backend \in Backends :
        \/ \E overwrite \in BOOLEAN :
            \E t \in CallsOf(backend, overwrite) : tasks = <<t>>
        \/ \E t, u \in CallsOf(backend, FALSE) :
            /\ Destination(t) = Destination(u)
            /\ tasks = <<t, u>>

NextBackend ==
    \/ BackendRead
    \/ BackendCheck
    \/ BackendWrite
    \/ BackendWriteContents
    \/ BackendSetMetadata

SpecBackend == InitBackend /\ [][NextBackend]_vars

---------------------------------------------------------------------------
(* Concurrent calls on one FTPBackend (ftp.rs) *)

\* the largest number of concurrent callers of one FTPBackend
MaxCallers == 2

\* a call on the FTPBackend: the stream operations it has yet to perform
\* (commands), whether it holds the guard of the stream's mutex, and where
\* it stands: at its start, awaiting the lock, between two stream
\* operations, awaiting the reply to a command, or returned
FtpCall(op, path, to, all, overwrite) ==
    [backend |-> "FTPBackend", op |-> op, path |-> path, to |-> to,
     paths |-> all, overwrite |-> overwrite, contents |-> NewContent,
     commands |-> IF op = "retrieve_files" THEN Len(all) ELSE 1,
     guard |-> FALSE, at |-> "start", result |-> Running]

\* ftp.rs 36-42, 57-59, 104, 124, 133, 142: the calls that reach todo!(),
\* in exists, get_file_type or retrieve_file_content, before any use of the
\* stream
FtpPanics(t) ==
    \/ t.op \in {"exists", "get_file_type", "retrieve_file_content", "copy_file"}
    \/ ~t.overwrite /\ t.op \in {"create_file", "rename_file", "move_file"}

\* a stream without a mutex: lock() always resolves
NoMutex(ts) == TRUE

\* tokio::sync::Mutex: lock() resolves when no guard is alive
MutexFree(ts) == \A i \in 1..Len(ts) : ~ts[i].guard

\* what the server does on the command of a call and what it replies: put,
\* mkdir, rename, rm, rmdir, list, and mlst of the next path
FtpServer(f, t) ==
    CASE t.op = "create_file" -> create_file(f, t.path, TRUE, t.contents)
      [] t.op = "create_dir" -> create_dir(f, t.path)
      [] t.op \in {"rename_file", "move_file"} ->
            move_file(f, t.path, Destination(t), TRUE)
      [] t.op = "remove_file" -> remove_file(f, t.path)
      [] t.op = "remove_dir" -> remove_dir(f, t.path)
      [] t.op = "read_dir" -> read_dir(f, t.path, "asc")
      [] t.op = "retrieve_files" ->
            get_file_type(f, t.paths[Len(t.paths) - t.commands + 1])

\* the call drops its guard, if it holds one, and returns
FtpReturn(i, r) ==
    tasks' = [tasks EXCEPT ![i].at = "returned", ![i].guard = FALSE,
                           ![i].result = r]

FtpUnchanged ==
    UNCHANGED <<fs0, reference, arg, ret, calls, req, pc, result, paths,
                dirs_to_copy, new_dirs_to_copy, dirs_to_remove,
                dirs_to_process, new_dirs_to_process, cur, entries,
                files_removed, results_len, total_size, progress, xfer, notes>>

\* the call starts: it panics in todo!(), or goes on to lock the stream
FtpBegin ==
    \E i \in 1..Len(tasks) :
        /\ tasks[i].at = "start"
        /\ IF FtpPanics(tasks[i]) THEN FtpReturn(i, Panicked)
           ELSE Proceed(i, "lock")
        /\ UNCHANGED <<fs, fault>>
        /\ FtpUnchanged

\* self.stream.lock().await resolves: the call holds the guard
FtpLock ==
    \E i \in 1..Len(tasks) :
        /\ tasks[i].at = "lock"
        /\ MutexFree(tasks)
        /\ tasks' = [tasks EXCEPT ![i].at = "locked", ![i].guard = TRUE]
        /\ UNCHANGED <<fs, fault>>
        /\ FtpUnchanged

\* the call sends its next command on the control stream; a retrieve_files
\* of no path has none to send and returns (ftp.rs 44-55)
FtpSend ==
    \E i \in 1..Len(tasks) :
        /\ tasks[i].at = "locked"
        /\ IF tasks[i].commands = 0 THEN FtpReturn(i, Ok)
           ELSE Proceed(i, "command")
        /\ UNCHANGED <<fs, fault>>
        /\ FtpUnchanged

\* the reply arrives: on an error `?` returns it, dropping the guard; after
\* the last command the statement or the function ends, dropping the
\* guard; retrieve_files keeps its guard for its next mlst (ftp.rs 45-50)
FtpReply ==
    \E i \in 1..Len(tasks) :
        /\ tasks[i].at = "command"
        /\ \E inj \in Injections :
            LET r == IF inj = 1 THEN Res(StdIO("Other"), fs[1], FALSE)
                     ELSE FtpServer(fs[1], tasks[i])
            IN /\ fs' = [fs EXCEPT ![1] = r.fs]
               /\ fault' = (fault /\ inj # 1)
               /\ IF r.err # NoError THEN FtpReturn(i, Err(r.err))
                  ELSE IF tasks[i].commands = 1 THEN FtpReturn(i, Ok)
                  ELSE tasks' = [tasks EXCEPT ![i].at = "locked",
                                              ![i].commands = @ - 1]
        /\ FtpUnchanged

\* the calls the callers make
FtpCalls ==
    {FtpCall("create_dir", <<"d", "a">>, <<>>, <<>>, FALSE),
     FtpCall("remove_file", <<"s", "f">>, <<>>, <<>>, FALSE),
     FtpCall("move_file", <<"s", "f">>, <<"d", "f">>, <<>>, TRUE),
     FtpCall("retrieve_files", <<>>, <<>>, <<<<"s", "f">>, <<"s", "g">>>>, FALSE),
     FtpCall("retrieve_files", <<>>, <<>>, <<>>, FALSE),
     FtpCall("read_dir", <<"s">>, <<>>, <<>>, FALSE),
     FtpCall("create_file", <<"d", "f">>, <<>>, <<>>, TRUE),
     FtpCall("create_file", <<"d", "f">>, <<>>, <<>>, FALSE),
     FtpCall("exists", <<"d">>, <<>>, <<>>, FALSE)}

\* up to MaxCallers callers have each made a call on one FTPBackend
InitFtp ==
    /\ fs = <<Merge(MakeFs(SrcRoot, {<<"f">>}, TRUE, "source"),
                    MakeFs(DstRoot, {}, TRUE, "dest")),
              MakeFs(DstRoot, {}, FALSE, "dest")>>
    /\ fs0 = fs
    /\ fault \in BOOLEAN
    /\ req = Request("backend", <<>>, <<>>, "asc")
    /\ pc = "backend"
    /\ OperationLocals
    /\ arg = NoArg
    /\ ret = NoRet
    /\ \E n \in 1..MaxCallers : tasks \in [1..n -> FtpCalls]

NextFtp ==
    \/ FtpBegin
    \/ FtpLock
    \/ FtpSend
    \/ FtpReply

\* each call is a future that is polled until it returns, and a lock()
\* that can resolve does: a step that can be taken is eventually taken
SpecFtp == InitFtp /\ [][NextFtp]_vars /\ WF_vars(NextFtp)

---------------------------------------------------------------------------
(* What the properties speak of *)

Done == pc = "done"

Returned(r) == Done /\ result = r

\* the entries of backend b at or below path p
AtOrBelow(b, p) == {q \in DOMAIN fs[b] : IsPrefix(p, q)}

InputPaths == {req.from[i] : i \in 1..Len(req.from)}

CallIs(i, ops) == calls[i].op \in ops

---------------------------------------------------------------------------
(* Properties of remove_all, under SpecRemove *)

\* C1: after remove_all(backend, [root of T]) returns Ok, no entry exists at
\* or below the root of T, the root included, for every directory tree T.
C1_RemoveAllLeavesNothing ==
    Returned(Ok) => \A r \in InputPaths : AtOrBelow(FromBackend, r) = {}

---------------------------------------------------------------------------
(* Properties of calculate_total_size, under SpecSize *)

RECURSIVE SumSizes(_, _)
\* the sum of the sizes of the entries ps of f, an unknown size counting 0
SumSizes(f, ps) ==
    IF ps = {} THEN 0
    ELSE LET p == CHOOSE q \in ps : TRUE
         IN unwrap_or_0(f[p].size) + SumSizes(f, ps \ {p})

\* the non-directory entries of f at or below p
LeavesAtOrBelow(f, p) == {q \in DOMAIN f : IsPrefix(p, q) /\ f[q].type # "Dir"}

\* the non-directory entries reachable from the input paths
ReachableLeaves(f) == UNION {LeavesAtOrBelow(f, p) : p \in InputPaths}

RECURSIVE SumPerInput(_, _)
\* the leaves below each input path summed, input path by input path
SumPerInput(f, ps) ==
    IF ps = <<>> THEN 0
    ELSE SumSizes(f, LeavesAtOrBelow(f, Head(ps))) + SumPerInput(f, Tail(ps))

\* no input path is at or below another input path
InputsDisjoint ==
    \A p, q \in InputPaths : p # q => ~IsPrefix(p, q)

---------------------------------------------------------------------------
(* Properties of the copy and move operations, under Spec *)

\* the backend the operation called writes to
Dest == ToBackend(req.op)

\* where the entry q at or below the input path r is to go
DestOf(r, q) ==
    Append(req.to, extract_lowest_path_item(r)) \o SubSeq(q, Len(r) + 1, Len(q))

\* the entries of the source, as they were at the call, at or below r
SourceAtOrBelow(r) == {q \in DOMAIN fs0[FromBackend] : IsPrefix(r, q)}

\* the file q of the source is at its destination with the source's content
FileReproduced(r, q) ==
    /\ DestOf(r, q) \in DOMAIN fs[Dest]
    /\ fs[Dest][DestOf(r, q)].type = "File"
    /\ fs[Dest][DestOf(r, q)].content = fs0[FromBackend][q].content

\* every file and directory of the source is at its destination
Reproduced ==
    \A r \in InputPaths : \A q \in SourceAtOrBelow(r) :
        /\ fs0[FromBackend][q].type = "Dir" => IsDir(fs[Dest], DestOf(r, q))
        /\ fs0[FromBackend][q].type = "File" => FileReproduced(r, q)

\* a file of the source lies two directories below an input path
DeepFile ==
    \E r \in InputPaths : \E q \in SourceAtOrBelow(r) :
        fs0[FromBackend][q].type = "File" /\ Len(q) >= Len(r) + 2

C3_MoveReproducesAndRemovesSource ==
    (req.op = "move_files" /\ Returned(Ok)) =>
        /\ Reproduced
        /\ \A r \in InputPaths : AtOrBelow(FromBackend, r) = {}

\* C3 witness: move_files has returned Ok for a source that holds a file two
\* directories below an input.
C3_Witness ==
    /\ req.op = "move_files"
    /\ Returned(Ok)
    /\ DeepFile

\* the step in which the handler returns Abort
AbortStep ==
    /\ pc = "handler"
    /\ notes'[Len(notes)].response = "Abort"

\* the handler's last response was Abort
Aborted == notes # <<>> /\ notes[Len(notes)].response = "Abort"

\* C5: once the handler returns Abort, the operation returns Ok(()) and
\* issues no further backend call, and the backends are left as they were
\* when the handler was asked: nothing transferred before is rolled back.
C5_AbortReturnsOkAndStops ==
    /\ [][AbortStep => (pc' = "done" /\ result' = Ok /\ fs' = fs /\ calls' = calls)]_vars
    /\ [](Aborted => (Returned(Ok) /\ Len(calls) = notes[Len(notes)].issued))

\* C5 witness: a move has returned after an Abort on its second file, the
\* first one moved into a directory it created at the destination.
C5_Witness ==
    /\ Done
    /\ IsMove(req.op)
    /\ Len(notes) = 2
    /\ Aborted
    /\ notes[1].ok
    /\ Len(notes[1].dest) >= 3
    /\ notes[1].dest \in DOMAIN fs[Dest]

SpecialTypes == {"Socket", "Fifo", "CharDevice", "BlockDevice", "Unknown"}

\* the entries of backend b at or below the destination root, in file
\* system f
DestinationState(f) ==
    [p \in {q \in DOMAIN f[Dest] : IsPrefix(req.to, q)} |-> f[Dest][p]]

\* C6: when the operation fails with CannotCopyOrMoveFileType of a special
\* type, the destination is as it was before the call, wherever the
\* offending entry stands among the inputs or in the tree.
C6_SpecialTypeLeavesDestinationUntouched ==
    \A t \in SpecialTypes :
        Returned(Err(CannotCopyOrMoveFileType(t))) =>
            DestinationState(fs) = DestinationState(fs0)

TransferCalls == {"move_file", "copy_file", "create_file"}

\* C7: in the variants without progress every transfer is issued with
\* overwrite = false, and a transfer whose destination path is taken makes
\* the operation fail, there and then, with an already-exists error naming
\* that path, the entry that occupies it left as it was.
C7_NoOverwriteAndCollisionFails ==
    ~HasProgress(req.op) =>
        \A i \in 1..Len(calls) :
            CallIs(i, TransferCalls) =>
                /\ ~calls[i].overwrite
                /\ calls[i].taken =>
                    /\ i = Len(calls)
                    /\ Returned(Err(FileAlreadyExists(Target(calls[i]))))
                    /\ Target(calls[i]) \in DOMAIN fs[calls[i].b]
                    /\ Target(calls[i]) \in DOMAIN fs0[calls[i].b]
                    /\ fs[calls[i].b][Target(calls[i])] = fs0[calls[i].b][Target(calls[i])]

\* C7 witness: an operation without progress has ended on a transfer into a
\* directory of the destination whose path was taken.
C7_Witness ==
    /\ ~HasProgress(req.op)
    /\ Done
    /\ calls # <<>>
    /\ CallIs(Len(calls), TransferCalls)
    /\ calls[Len(calls)].taken
    /\ Len(Target(calls[Len(calls)])) >= 3

\* the destination root did not exist when the operation was called
DestinationRootMissing == req.to \notin DOMAIN fs0[Dest]

\* C10: in all eight variants, when the destination root does not exist on
\* the destination backend the operation returns FileNonexistent(root)
\* having issued the existence check and nothing else: no size calculation,
\* no handler invocation, no mutation of either backend.
C10_MissingDestinationRoot ==
    (req.op \in Ops /\ DestinationRootMissing) =>
        /\ pc \in {"exists", "done"}
        /\ fs = fs0
        /\ notes = <<>>
        /\ total_size = 0
        /\ Len(calls) <= 1
        /\ Done =>
            /\ result = Err(FileNonexistent(req.to))
            /\ Len(calls) = 1
            /\ calls[1].op = "exists"
            /\ calls[1].b = Dest
            /\ calls[1].path = req.to

\* C10 witness: a progress-tracked two-backend operation has returned with
\* the destination root missing on to_backend.
C10_Witness ==
    /\ req.op = "copy_files_between_with_progress"
    /\ DestinationRootMissing
    /\ Done

---------------------------------------------------------------------------
(* Properties of a transfer of five files, under SpecFive *)

\* the handler returned Abort when notified of the third file
AbortOnThird == Len(notes) >= 3 /\ notes[3].response = "Abort"

SourceFiles ==
    {q \in DOMAIN fs0[FromBackend] :
        IsBelow(q, SrcRoot) /\ fs0[FromBackend][q].type = "File"}

\* the input path the source entry q lies at or below
InputOf(q) == CHOOSE r \in InputPaths : IsPrefix(r, q)

\* the source file q has been transferred
IsTransferred(q) == FileReproduced(InputOf(q), q)

\* the source file q and the path it is to go to are as they were
Untouched(q) ==
    /\ q \in DOMAIN fs[FromBackend]
    /\ fs[FromBackend][q] = fs0[FromBackend][q]
    /\ DestOf(InputOf(q), q) \in DOMAIN fs[Dest]
        <=> DestOf(InputOf(q), q) \in DOMAIN fs0[Dest]
    /\ DestOf(InputOf(q), q) \in DOMAIN fs[Dest] =>
        fs[Dest][DestOf(InputOf(q), q)] = fs0[Dest][DestOf(InputOf(q), q)]
    /\ \A i \in 1..Len(notes) : notes[i].path # q

\* the files the handler's first n notifications were about
Notified(n) == {notes[i].path : i \in 1..n}

\* the files of the first n notifications whose attempt succeeded or that
\* were overwritten on the handler's request
Delivered(n) ==
    {notes[i].path : i \in {j \in 1..n : notes[j].ok \/ notes[j].response = "Overwrite"}}

\* C4 as stated: when the handler returns Abort on the third of five files,
\* the operation returns success, exactly two files have been transferred
\* and the remaining three are untouched at the source.
C4_AbortOnThirdLeavesTwoTransferred ==
    (HasProgress(req.op) /\ AbortOnThird) =>
        /\ Returned(Ok)
        /\ Cardinality({q \in SourceFiles : IsTransferred(q)}) = 2
        /\ Cardinality({q \in SourceFiles : Untouched(q)}) = 3

\* C4 amended: the handler is notified of a file after its transfer was
\* attempted.  When it returns Abort on the third of five files the
\* operation returns success; the files transferred are those of the first
\* three whose attempt succeeded or that were overwritten on request (the
\* third one exactly when its attempt succeeded); the two files not yet
\* reached are untouched at the source.
C4_AbortOnThirdStopsAfterThree ==
    (HasProgress(req.op) /\ AbortOnThird) =>
        /\ Returned(Ok)
        /\ Len(notes) = 3
        /\ {q \in SourceFiles : IsTransferred(q)} = Delivered(3)
        /\ notes[3].path \in Delivered(3) <=> notes[3].ok
        /\ {q \in SourceFiles : Untouched(q)} = SourceFiles \ Notified(3)
        /\ Cardinality(SourceFiles \ Notified(3)) = 2

\* C4 witness: the operation has returned after an Abort on the third file,
\* all three attempts having succeeded.
C4_Witness ==
    /\ HasProgress(req.op)
    /\ AbortOnThird
    /\ Done
    /\ Cardinality(SourceFiles) = 5
    /\ \A i \in 1..3 : notes[i].ok
    /\ Cardinality({q \in SourceFiles : IsTransferred(q)}) = 3

---------------------------------------------------------------------------
(* Properties of the handler's responses, under Spec *)

\* the last notification, the one the handler is answering or has answered
LastNote == notes[Len(notes)]

\* the source's bytes are at the destination path of notification n
HoldsSourceBytes(n) ==
    /\ n.dest \in DOMAIN fs[Dest]
    /\ fs[Dest][n.dest].content = fs0[FromBackend][n.path].content

\* the retry the i-th notification's Overwrite response asked for is over
RetryOver(i) == i < Len(notes) \/ Returned(Ok)

\* C11: an Overwrite response re-issues the same transfer (same operation
\* kind, same source path, same destination path, same backends) with
\* overwrite = true, top-level and nested alike; with Overwrite on a
\* collision in a copy, the destination ends up holding the source's bytes.
C11_OverwriteRetriesSameTransfer ==
    /\ (HasProgress(req.op) /\ xfer.retry) =>
        /\ xfer.overwrite
        /\ xfer.kind = LastNote.kind
        /\ xfer.file.path = LastNote.path
        /\ xfer.dest = LastNote.dest
    /\ \A i \in 1..Len(notes) :
        (/\ ~IsMove(req.op)
         /\ notes[i].response = "Overwrite"
         /\ notes[i].progress.state = "Exists"
         /\ RetryOver(i)) => HoldsSourceBytes(notes[i])

\* the step in which the handler returns ContinueOrAbort
ContinueOrAbortStep ==
    /\ pc = "handler"
    /\ notes'[Len(notes)].response = "ContinueOrAbort"

\* C12: when the handler returns ContinueOrAbort, the operation fails with
\* the stored error in state Other(error), which is the error the attempt
\* returned; fails with FileAlreadyExists(conflict destination) in state
\* Exists(conflict); goes on with the next item in state Normal.
C12_ContinueOrAbortFollowsState ==
    /\ [][ContinueOrAbortStep =>
            /\ progress.state = "Other" =>
                (pc' = "done" /\ result' = Err(progress.error))
            /\ progress.state = "Exists" =>
                (pc' = "done"
                    /\ result' = Err(FileAlreadyExists(progress.conflict.destination)))
            /\ progress.state = "Normal" =>
                (pc' = Resume /\ result' = result)
            /\ fs' = fs
            /\ calls' = calls]_vars
    /\ [](pc = "handler" =>
            /\ progress.state = "Other" =>
                (~LastNote.ok /\ progress.error = calls[Len(calls)].err
                    /\ ~is_already_exists_error(progress.error))
            /\ progress.state = "Exists" =>
                (~LastNote.ok /\ is_already_exists_error(calls[Len(calls)].err)
                    /\ progress.conflict.destination = xfer.dest)
            /\ progress.state = "Normal" => LastNote.ok)

\* C12 witness: the operation has returned the error of a failed attempt
\* after a ContinueOrAbort, a later item having been transferred before.
C12_Witness ==
    /\ Done
    /\ Len(notes) >= 2
    /\ notes[1].ok
    /\ LastNote.response = "ContinueOrAbort"
    /\ LastNote.progress.state = "Other"
    /\ result = Err(LastNote.progress.error)

\* the calls an attempt to transfer a file starts with
AttemptCalls == {"move_file", "copy_file", "retrieve_file_content"}

\* the positions in the call log at which an attempt on the source p starts
Attempts(p) ==
    {i \in 1..Len(calls) : CallIs(i, AttemptCalls) /\ calls[i].path = p}

\* the notifications about the source p
NotesOf(p) == {j \in 1..Len(notes) : notes[j].path = p}

\* the sources an attempt was made on
Attempted == {calls[i].path : i \in {j \in 1..Len(calls) : CallIs(j, AttemptCalls)}}

\* C13: each file is attempted at most once with overwrite = false and at
\* most once more with overwrite = true, the latter only directly after an
\* Overwrite response for that file; after a Skip the file is not attempted
\* again.
C13_NoRetryUnlessOverwrite ==
    /\ \A p \in Attempted :
        /\ Cardinality(Attempts(p)) <= 2
        /\ Cardinality(NotesOf(p)) <= 1
        /\ \A i \in Attempts(p) : \A j \in NotesOf(p) :
            /\ i <= notes[j].issued => \A k \in Attempts(p) : k >= i
            /\ i > notes[j].issued =>
                /\ notes[j].response = "Overwrite"
                /\ i = notes[j].issued + 1
        /\ Cardinality(Attempts(p)) = 2 => NotesOf(p) # {}
    /\ \A i \in 1..Len(calls) :
        (CallIs(i, TransferCalls) /\ calls[i].overwrite) =>
            \E j \in 1..Len(notes) :
                /\ notes[j].response = "Overwrite"
                /\ notes[j].dest = Target(calls[i])
                /\ i > notes[j].issued
                /\ i <= notes[j].issued + 2
    /\ \A j \in 1..Len(notes) :
        notes[j].response = "Skip" =>
            \A i \in Attempts(notes[j].path) : i <= notes[j].issued

\* C13 witness: the operation has ended after a file was skipped on a
\* collision and another was overwritten on request.
C13_Witness ==
    /\ Returned(Ok)
    /\ \E j, k \in 1..Len(notes) :
        /\ notes[j].response = "Skip"
        /\ ~notes[j].ok
        /\ notes[k].response = "Overwrite"
        /\ Cardinality(Attempts(notes[k].path)) = 2

\* C14: in all eight variants only Socket, Fifo, CharDevice, BlockDevice and
\* Unknown produce CannotCopyOrMoveFileType; a Symlink (like a File) is
\* transferred and a Dir is queued, top-level and nested alike.
C14_OnlySpecialTypesAreRefused ==
    \A t \in FileTypes :
        Returned(Err(CannotCopyOrMoveFileType(t))) => t \in SpecialTypes

\* the calls from_backend may receive
SourceCalls(op) ==
    {"get_file_type", "retrieve_files", "read_dir", "retrieve_file_content"}
        \cup (IF IsMove(op) THEN {"remove_file", "remove_dir"} ELSE {})

\* the calls to_backend may receive
DestinationCalls == {"exists", "create_dir", "create_file"}

\* C15: in the four two-backend variants the destination existence check
\* and every write go to to_backend; from_backend receives only type
\* queries, metadata fetches, listings, content reads and, in a move,
\* removals of source entries; no destination path is written on it.
C15_WritesGoToDestinationBackend ==
    IsBetween(req.op) =>
        \A i \in 1..Len(calls) :
            /\ calls[i].b = FromBackend =>
                /\ calls[i].op \in SourceCalls(req.op)
                /\ ~IsPrefix(req.to, Target(calls[i]))
            /\ calls[i].b # FromBackend => calls[i].op \in DestinationCalls
            /\ calls[i].op \in DestinationCalls => calls[i].b = Dest

\* the entries of the source backend at or below the source root, in f
SourceState(f) ==
    [p \in {q \in DOMAIN f[FromBackend] : IsPrefix(SrcRoot, q)} |->
        f[FromBackend][p]]

\* C16: no copy variant removes, moves or modifies a source entry: every
\* source path and its content are the same after the operation as before.
C16_CopyLeavesSourceUntouched ==
    (req.op \in Ops /\ ~IsMove(req.op)) => SourceState(fs) = SourceState(fs0)

---------------------------------------------------------------------------
(* Properties of failing backend calls, under SpecFault *)

\* the i-th call is a create_dir that reported that the path exists
Tolerated(i) ==
    calls[i].op = "create_dir" /\ is_already_exists_error(calls[i].err)

Unattended == {op \in Ops : ~HasProgress(op)} \cup {"remove_all"}

\* the entry the i-th call made is in place, the entry it removed is gone
EffectRemains(i) ==
    /\ calls[i].op \in {"create_dir", "create_file", "copy_file", "move_file"} =>
        Target(calls[i]) \in DOMAIN fs[calls[i].b]
    /\ calls[i].op \in {"remove_file", "remove_dir", "move_file"} =>
        calls[i].path \notin DOMAIN fs[calls[i].b]

\* C18: in the variants without progress and in remove_all the first error
\* a backend call returns (an already-exists error of create_dir apart) is
\* returned unchanged, no backend call is made after it, and what the
\* earlier calls created or removed stays so.
C18_FirstErrorIsReturned ==
    req.op \in Unattended =>
        /\ \A i \in 1..Len(calls) :
            IF calls[i].ok \/ Tolerated(i)
            THEN calls[i].ok => EffectRemains(i)
            ELSE /\ i = Len(calls)
                 /\ Returned(Err(calls[i].err))
        /\ (Done /\ result # Ok) =>
            \/ calls # <<>> /\ result = Err(calls[Len(calls)].err)
            \/ result.err.kind \in {"CannotCopyOrMoveFileType", "FileNonexistent"}

\* C18 witness: an operation without progress has returned the error of a
\* call that failed after earlier calls had written to the destination.
C18_Witness ==
    /\ req.op \in Unattended
    /\ Done
    /\ Len(calls) >= 2
    /\ ~calls[Len(calls)].ok
    /\ calls[Len(calls)].err = StdIO("Other")
    /\ \E i \in 1..(Len(calls) - 1) :
        CallIs(i, TransferCalls) /\ calls[i].ok /\ EffectRemains(i)

---------------------------------------------------------------------------
(* Properties of the backends' mutating calls, under SpecBackend *)

AllReturned == \A i \in 1..Len(tasks) : tasks[i].at = "returned"

\* the call failed with an already-exists error
RefusedAsExisting(t) ==
    t.result.status = "err" /\ is_already_exists_error(t.result.err)

\* C19: on each backend create_file, move_file, copy_file and rename_file
\* called with overwrite = false on an occupied destination return an
\* already-exists error and leave source and destination unchanged.
C19_OccupiedDestinationIsRefused ==
    (/\ Len(tasks) = 1
     /\ tasks[1].at = "returned"
     /\ ~tasks[1].overwrite
     /\ Destination(tasks[1]) \in DOMAIN fs0[1]) =>
        /\ RefusedAsExisting(tasks[1])
        /\ fs = fs0

\* the requests a call issues after its existence check
AfterCheck == {"write", "contents", "metadata"}

\* C20: two mutating calls with overwrite = false to the same unoccupied
\* destination, running at once on one backend: at most one succeeds and
\* the other fails with already-exists, and no call stands between its
\* existence check and its write while the other one takes steps.
C20_ConcurrentCallsAreAtomic ==
    (/\ Len(tasks) = 2
     /\ Destination(tasks[1]) \notin DOMAIN fs0[1]) =>
        /\ ~(tasks[1].result = Ok /\ tasks[2].result = Ok)
        /\ \A i, j \in 1..2 :
            (i # j /\ AllReturned /\ tasks[i].result = Ok) =>
                RefusedAsExisting(tasks[j])
        /\ ~(tasks[1].at \in AfterCheck /\ tasks[2].at \in AfterCheck)

---------------------------------------------------------------------------
(* Properties of the order of removals *)

Reverse(s) == [i \in 1..Len(s) |-> s[Len(s) + 1 - i]]

IsSeqPrefix(s, u) == Len(s) <= Len(u) /\ SubSeq(u, 1, Len(s)) = s

IsRemoveDir(c) == c.op = "remove_dir"

IsReadDir(c) == c.op = "read_dir"

\* the directories removed, in the order of their remove_dir calls
Removals == [i \in 1..Len(SelectSeq(calls, IsRemoveDir)) |->
                SelectSeq(calls, IsRemoveDir)[i].path]

\* C21: remove_all issues no remove_dir before its descent is complete
\* (after the last read_dir), and then removes every visited directory
\* exactly once, in the reverse of the order of discovery.
C21_RemoveAllRemovesAfterDescent ==
    req.op = "remove_all" =>
        /\ \A i, j \in 1..Len(calls) :
            (i < j /\ IsRemoveDir(calls[i])) => ~IsReadDir(calls[j])
        /\ Returned(Ok) =>
            Removals = Reverse([i \in 1..Len(SelectSeq(calls, IsReadDir)) |->
                                   SelectSeq(calls, IsReadDir)[i].path])

\* the positions of the read_dir calls of the traversal: each follows the
\* create_dir of the directory's counterpart
Visits ==
    {j \in 2..Len(calls) : IsReadDir(calls[j]) /\ calls[j - 1].op = "create_dir"}

RECURSIVE InOrder(_)
\* the paths of the calls at a set of positions, in the order of the log
InOrder(S) ==
    IF S = {} THEN <<>>
    ELSE LET first == CHOOSE i \in S : \A j \in S : i <= j
         IN <<calls[first].path>> \o InOrder(S \ {first})

\* the source directories gone through, in the order of discovery
Visited == InOrder(Visits)

\* the handler has stopped the operation
Stopped == \E j \in 1..Len(notes) : notes[j].response = "Abort"

\* C22: in every move variant no source directory is removed before every
\* transfer and directory creation of the traversal has completed; the
\* source directories are then removed in reverse discovery order, each
\* after all of its subdirectories, and when the move has run to its end
\* every directory visited has been removed exactly once.
C22_MoveRemovesDirectoriesLast ==
    IsMove(req.op) =>
        /\ \A i, j \in 1..Len(calls) :
            (i < j /\ IsRemoveDir(calls[i])) =>
                /\ IsRemoveDir(calls[j])
                /\ calls[i].ok
                /\ ~IsBelow(calls[j].path, calls[i].path)
        /\ IsSeqPrefix(Removals, Reverse(Visited))
        /\ Removals # <<>> =>
            /\ pc \in {"remove_dirs", "done"}
            /\ Len(Visited) = Cardinality(Visits)
            /\ \A i, j \in 1..Len(Visited) : i # j => Visited[i] # Visited[j]
        /\ (Returned(Ok) /\ ~Stopped) =>
            /\ Removals = Reverse(Visited)
            /\ \A i \in 1..Len(Visited) : Visited[i] \notin DOMAIN fs[FromBackend]

\* C22 witness: a move has ended after removing a directory and the
\* directory that held it, the inner one first.
C22_Witness ==
    /\ IsMove(req.op)
    /\ Returned(Ok)
    /\ Len(Removals) >= 2
    /\ \E i, j \in 1..Len(Removals) : i < j /\ IsBelow(Removals[i], Removals[j])
    /\ \E i \in 1..Len(calls) : CallIs(i, TransferCalls) /\ calls[i].ok

---------------------------------------------------------------------------
(* Properties of the transfer of one file between two backends *)

MovesBetween == {"move_files_between", "move_files_between_with_progress"}

\* the i-th call is the read of a source file that succeeded
ReadAt(i, p) ==
    /\ i >= 1
    /\ calls[i].op = "retrieve_file_content"
    /\ calls[i].b = FromBackend
    /\ calls[i].path = p
    /\ calls[i].ok

\* the files the source backend held before the operation
SourceLeaves == {p \in DOMAIN fs0[FromBackend] : fs0[FromBackend][p].type # "Dir"}

\* C23: a cross-backend move of one file reads the content from
\* from_backend, then writes it to to_backend with the given overwrite
\* flag, then removes the source file; the source file is removed only if
\* the write succeeded, so a failed read or write leaves it in place.
C23_MoveBetweenRemovesAfterWrite ==
    req.op \in MovesBetween =>
        /\ \A i \in 1..Len(calls) :
            /\ calls[i].op = "create_file" =>
                /\ calls[i].b = Dest
                /\ i >= 2 /\ ReadAt(i - 1, calls[i - 1].path)
                /\ (i = Len(calls) /\ pc = "remove_file") =>
                    /\ calls[i].ok
                    /\ calls[i].overwrite = xfer.overwrite
                    /\ calls[i - 1].path = xfer.file.path
                    /\ fs[Dest][calls[i].path].content
                        = fs0[FromBackend][xfer.file.path].content
            /\ calls[i].op = "remove_file" =>
                /\ calls[i].b = FromBackend
                /\ i >= 3
                /\ calls[i - 1].op = "create_file" /\ calls[i - 1].ok
                /\ ReadAt(i - 2, calls[i].path)
            /\ (calls[i].op \in {"retrieve_file_content", "create_file"}
                    /\ ~calls[i].ok /\ i < Len(calls)) =>
                calls[i + 1].op # "remove_file"
        /\ \A p \in SourceLeaves :
            p \notin DOMAIN fs[FromBackend] =>
                \E i \in 1..Len(calls) :
                    calls[i].op = "remove_file" /\ calls[i].path = p /\ calls[i].ok

\* C23 witness: a cross-backend move has removed the source of a file it
\* wrote and has ended on the failed write of another file, whose source is
\* still in place.
C23_Witness ==
    /\ req.op \in MovesBetween
    /\ Done
    /\ \E i \in 1..Len(calls) : calls[i].op = "remove_file" /\ calls[i].ok
    /\ Len(calls) >= 2
    /\ calls[Len(calls)].op = "create_file"
    /\ ~calls[Len(calls)].ok
    /\ calls[Len(calls) - 1].path \in DOMAIN fs[FromBackend]

---------------------------------------------------------------------------
(* Properties of the snapshots passed to the progress handler *)

\* the notifications of files transferred by the time of the j-th snapshot:
\* those whose attempt succeeded and those overwritten on request
Succeeded(j) ==
    {k \in 1..j : notes[k].ok \/ (k < j /\ notes[k].response = "Overwrite")}

RECURSIVE SizeOfNoted(_)
\* the sum of the sizes of the source files of a set of notifications
SizeOfNoted(S) ==
    IF S = {} THEN 0
    ELSE LET k == CHOOSE i \in S : TRUE
         IN unwrap_or_0(fs0[FromBackend][notes[k].path].size)
                + SizeOfNoted(S \ {k})

\* C24: in every snapshot passed to the handler, processed_files is the
\* number of files whose transfer has succeeded so far in the operation.
C24_ProcessedFilesCountsSuccesses ==
    \A j \in 1..Len(notes) :
        notes[j].progress.processed_files = Cardinality(Succeeded(j))

\* processed_bytes of the snapshot before the j-th
BytesBefore(j) == IF j = 1 THEN 0 ELSE notes[j - 1].progress.processed_bytes

\* C25: processed_bytes is advanced only by successful transfers: in every
\* snapshot it is the sum of the sizes of the files transferred so far, and
\* a failed attempt (state Exists or Other) leaves it unchanged.
C25_ProcessedBytesCountsSuccesses ==
    \A j \in 1..Len(notes) :
        /\ notes[j].progress.processed_bytes = SizeOfNoted(Succeeded(j))
        /\ notes[j].progress.state \in {"Exists", "Other"} =>
            notes[j].progress.processed_bytes = BytesBefore(j)

\* the error the attempt reported in the j-th notification ended with
AttemptError(j) == calls[notes[j].issued].err

\* C26: for each attempted transfer the handler sees Normal exactly when
\* the attempt succeeded, Exists(conflict) exactly when it failed with an
\* already-exists error, and Other(error) with the original error
\* otherwise; in Exists the conflict names the source path, the computed
\* destination path and the entry's type.
C26_StateClassifiesOutcome ==
    \A j \in 1..Len(notes) :
        LET p == notes[j].progress
            e == AttemptError(j)
            last == calls[notes[j].issued]
        IN /\ notes[j].issued \in 1..Len(calls)
           /\ p.state \in {"Normal", "Exists", "Other"}
           /\ p.state = "Normal" <=> e = NoError
           /\ p.state = "Exists" <=>
                (e \in {FileAlreadyExists(Target(last)), StdIO("AlreadyExists")})
           /\ p.state = "Other" => p.error = e
           /\ p.state = "Exists" =>
                /\ p.conflict.origin = notes[j].path
                /\ p.conflict.destination = Target(last)
                /\ p.conflict.destination
                    = JoinName(Front(Target(last)), Last(notes[j].path))
                /\ p.conflict.file_type = fs0[FromBackend][notes[j].path].type
                /\ last.op \in {"move_file", "copy_file"} => last.path = notes[j].path

\* C26 witness: the handler has seen one transfer collide and another fail
\* otherwise.
C26_Witness ==
    \E j, k \in 1..Len(notes) :
        /\ notes[j].progress.state = "Exists"
        /\ is_already_exists_error(AttemptError(j))
        /\ notes[k].progress.state = "Other"
        /\ notes[k].progress.error = AttemptError(k)

---------------------------------------------------------------------------
(* Properties of total_bytes *)

\* the positions of the retrieve_files calls
Retrievals == {i \in 1..Len(calls) : calls[i].op = "retrieve_files"}

\* the listings calculate_total_size asks for: no create_dir precedes them
SizeListings ==
    {i \in 2..Len(calls) : IsReadDir(calls[i]) /\ calls[i - 1].op # "create_dir"}

\* C27: in every progress-tracked variant calculate_total_size is run
\* exactly once, on the source backend and the input paths, before the
\* first transfer; total_bytes of every snapshot passed to the handler is
\* the value it returned and never changes during the operation.
C27_TotalBytesIsComputedOnce ==
    HasProgress(req.op) =>
        /\ Len(calls) >= 2 =>
            /\ calls[1].op = "exists"
            /\ calls[2].op = "retrieve_files"
            /\ calls[2].b = FromBackend
            /\ calls[2].paths = req.from
        /\ Cardinality(Retrievals) <= 2
        /\ \A i \in SizeListings :
            /\ calls[i].b = FromBackend
            /\ \A j \in 2..i : calls[j].op \in {"retrieve_files", "read_dir"}
            /\ \A j \in Retrievals : j > i => \A k \in Retrievals : k <= j
        /\ \A i \in 1..Len(calls) :
            calls[i].op \in TransferCalls \cup AttemptCalls \cup {"create_dir"} =>
                /\ Cardinality(Retrievals) = 2
                /\ \A j \in Retrievals \cup SizeListings : j < i
        /\ Cardinality(Retrievals) = 2 =>
            /\ total_size = SumPerInput(fs0[FromBackend], req.from)
            /\ progress.total_bytes = total_size
        /\ \A j \in 1..Len(notes) : notes[j].progress.total_bytes = total_size

\* C27 witness: the handler has been given two snapshots of an operation
\* whose total size took a listing to compute.
C27_Witness ==
    /\ HasProgress(req.op)
    /\ Len(notes) >= 2
    /\ SizeListings # {}
    /\ notes[1].progress.total_bytes > 0
    /\ notes[2].progress.total_bytes = notes[1].progress.total_bytes

---------------------------------------------------------------------------
(* Properties of the invocations of the progress handler *)

\* the positions at which the first attempt on a file is under way
InAttempt == {"transfer", "create_file", "remove_file"}

\* the first attempt on the source p has not returned yet
FirstAttemptUnderWay(p) ==
    pc \in InAttempt /\ xfer.file.path = p /\ ~xfer.retry

\* C28: in every progress-tracked variant the handler is invoked exactly
\* once per attempted file transfer, after the overwrite = false attempt
\* has returned; the engine issues no backend call between invoking the
\* handler and receiving its response, and invocations never overlap.
C28_HandlerOncePerAttempt ==
    /\ [](HasProgress(req.op) =>
            /\ \A p \in Attempted :
                /\ Cardinality(NotesOf(p)) = (IF FirstAttemptUnderWay(p) THEN 0 ELSE 1)
            /\ \A j \in 1..Len(notes) :
                /\ notes[j].issued \in 1..Len(calls)
                /\ notes[j].path \in Attempted
                /\ ~calls[notes[j].issued].overwrite
                /\ \A i \in Attempts(notes[j].path) :
                    i > notes[j].issued => calls[i].op # "retrieve_file_content"
                                            \/ i = notes[j].issued + 1
                /\ \E i \in Attempts(notes[j].path) : i <= notes[j].issued
                /\ notes[j].response = "none" => (j = Len(notes) /\ pc = "handler")
            /\ pc = "handler" =>
                /\ notes # <<>>
                /\ LastNote.response = "none"
                /\ LastNote.issued = Len(calls))
    /\ [][pc = "handler" =>
            /\ calls' = calls
            /\ fs' = fs
            /\ Len(notes') = Len(notes)
            /\ notes'[Len(notes)].response \in Responses]_vars

\* C28 witness: the operation has ended after the handler was called for a
\* transfer that succeeded and for one that failed and was skipped.
C28_Witness ==
    /\ Returned(Ok)
    /\ \E j, k \in 1..Len(notes) :
        /\ notes[j].ok
        /\ ~notes[k].ok /\ notes[k].response = "Skip"
    /\ Cardinality(Attempted) = Len(notes)

---------------------------------------------------------------------------
(* Properties of a failing calculate_total_size, under SpecSize *)

---------------------------------------------------------------------------
(* Properties of a failing backend call, under SpecBackend *)

\* C30: a single backend call that returns an error leaves the backend as
\* it was before the call: a create_file whose write of the contents fails
\* leaves no empty file behind, an SFTP copy_file whose set_metadata fails
\* leaves no destination file behind.
C30_FailedCallLeavesBackendUnchanged ==
    (/\ Len(tasks) = 1
     /\ tasks[1].at = "returned"
     /\ tasks[1].result.status = "err") => fs = fs0

---------------------------------------------------------------------------
(* Properties of the handler's responses in a traversal *)

MovesWithProgress ==
    {"move_files_with_progress", "move_files_between_with_progress"}

\* the notifications of a collision on a file inside a source directory
\* that the handler answered with Skip
SkippedInside ==
    {j \in 1..Len(notes) : /\ notes[j].progress.state = "Exists"
                           /\ notes[j].response = "Skip"
                           /\ notes[j].path \notin InputPaths}

\* no backend call has failed but the attempts that collided and were
\* answered with Skip, the create_dir calls of directories that exist, and
\* the removals of source directories
OnlySkippedCollisionsFailed ==
    \A i \in 1..Len(calls) :
        ~calls[i].ok =>
            \/ \E j \in SkippedInside : notes[j].issued = i
            \/ Tolerated(i)
            \/ IsRemoveDir(calls[i])

\* the source holds only files and directories
PlainSource ==
    \A p \in DOMAIN fs0[FromBackend] :
        fs0[FromBackend][p].type \in {"Dir", "File"}

\* C32: a Skip response never makes the operation fail: when the handler
\* of move_files_with_progress or move_files_between_with_progress answers
\* Skip to a collision on a file inside a source directory and no other
\* backend call fails, the operation returns Ok, the skipped file is still
\* at its source path and the colliding destination file is unchanged.
C32_SkipNeverFailsTheMove ==
    (/\ Done
     /\ req.op \in MovesWithProgress
     /\ SkippedInside # {}
     /\ ~Stopped
     /\ PlainSource
     /\ OnlySkippedCollisionsFailed) =>
        /\ result = Ok
        /\ \A j \in SkippedInside :
            /\ notes[j].path \in DOMAIN fs[FromBackend]
            /\ fs[FromBackend][notes[j].path] = fs0[FromBackend][notes[j].path]
            /\ fs[Dest][notes[j].dest] = fs0[Dest][notes[j].dest]

\* the responses that let the operation go on
GoOn == {"ContinueOrAbort", "Skip", "Overwrite"}

\* C33: the handler's response to a notification with state Normal has no
\* effect unless it is Abort: after ContinueOrAbort, Skip and Overwrite
\* alike the engine issues no additional backend call for that file and
\* goes on to the next item.
C33_ResponseToNormalHasNoEffect ==
    \A j \in 1..Len(notes) :
        (notes[j].progress.state = "Normal" /\ notes[j].response \in GoOn) =>
            /\ \A i \in Attempts(notes[j].path) : i <= notes[j].issued
            /\ (j = Len(notes) /\ Done) => result.status # "err"

---------------------------------------------------------------------------
(* Properties of the order of the traversal *)

\* before the i-th call the destination directory dir was created or
\* found existing
Entered(dir, i) ==
    \E j \in 1..(i - 1) :
        /\ calls[j].op = "create_dir"
        /\ calls[j].path = dir
        /\ calls[j].ok \/ Tolerated(j)

\* the calls of the traversal that stand for a directory or for a file
\* brought into one
TraversalSteps ==
    {i \in 1..Len(calls) :
        calls[i].op = "create_dir" \/ i \in Visits \/ CallIs(i, TransferCalls)}

\* the depth of the directory the i-th call is about
DepthOf(i) ==
    IF calls[i].op \in {"create_dir", "read_dir"} THEN Len(calls[i].path)
    ELSE Len(Target(calls[i])) - 1

\* C37: in every copy and move variant the destination directory of a
\* source directory is created (or found existing) before any file is
\* transferred into it and before the destination directory of any of its
\* subdirectories is created; directories are processed level by level,
\* all of depth k before any of depth k+1.
C37_DirectoriesLevelByLevel ==
    req.op \in Ops =>
        /\ \A i \in 1..Len(calls) :
            /\ (calls[i].op = "create_dir" /\ Front(calls[i].path) # req.to) =>
                    Entered(Front(calls[i].path), i)
            /\ (CallIs(i, TransferCalls) /\ Front(Target(calls[i])) # req.to) =>
                    Entered(Front(Target(calls[i])), i)
        /\ \A i, j \in TraversalSteps : i < j => DepthOf(i) <= DepthOf(j)

\* C37 witness: an operation has ended after creating a directory inside a
\* directory it created and bringing a file into the inner one.
C37_Witness ==
    /\ req.op \in Ops
    /\ Returned(Ok)
    /\ \E i, j, k \in 1..Len(calls) :
        /\ i < j /\ j < k
        /\ calls[i].op = "create_dir" /\ calls[i].ok
        /\ calls[j].op = "create_dir" /\ calls[j].ok
        /\ Front(calls[j].path) = calls[i].path
        /\ CallIs(k, TransferCalls) /\ calls[k].ok
        /\ Front(Target(calls[k])) = calls[j].path

---------------------------------------------------------------------------
(* Properties of the byte counters of a progress-tracked operation *)

\* every file and link of the source was reported to the handler as
\* transferred
EveryTransferSucceeded ==
    \A p \in SourceLeaves : \E j \in NotesOf(p) : notes[j].ok

---------------------------------------------------------------------------
(* Properties of an operation and its progress-tracked counterpart, under
   SpecPair *)

\* C34: each progress-tracked variant run with a handler that always
\* returns ContinueOrAbort is equivalent to its counterpart without
\* progress: same success or failure and same final state of the source
\* and destination backends.
C34_ProgressVariantRefinesCounterpart ==
    (Done /\ reference # NoReference) =>
        /\ result.status = reference.result.status
        /\ fs = reference.fs

---------------------------------------------------------------------------
(* Termination of the traversals, under SpecLive *)

\* the directories of the source tree
SourceDirs ==
    {p \in DOMAIN fs0[FromBackend] :
        fs0[FromBackend][p].type = "Dir" /\ IsBelow(p, SrcRoot)}

\* the read_dir calls of dir among the calls at the positions S
ListingsOf(dir, S) == {i \in S : IsReadDir(calls[i]) /\ calls[i].path = dir}

\* the operation has run to its end: no error and no Abort has cut it short
RanToTheEnd == Returned(Ok) /\ ~Stopped

\* in a run that was not cut short every directory of the source tree was
\* listed once by the traversal, and once more by the size computation
\* that precedes the traversal of a progress-tracked variant
ReadDirOncePerTraversal ==
    RanToTheEnd =>
        \A dir \in SourceDirs :
            IF req.op \in Ops
            THEN /\ Cardinality(ListingsOf(dir, Visits)) = 1
                 /\ Cardinality(ListingsOf(dir, SizeListings)) =
                        IF HasProgress(req.op) THEN 1 ELSE 0
            ELSE Cardinality(ListingsOf(dir, 1..Len(calls))) = 1

---------------------------------------------------------------------------
(* Properties of a copy into its own source, under SpecSelf *)

\* the directories at or below the input paths when the operation is called
InputDirs ==
    {p \in DOMAIN fs0[FromBackend] :
        /\ fs0[FromBackend][p].type = "Dir"
        /\ \E i \in 1..Len(req.from) : IsPrefix(req.from[i], p)}

\* the create_dir calls that have created a directory
Creations == {i \in 1..Len(calls) : calls[i].op = "create_dir" /\ calls[i].ok}

\* C36: copy_files terminates also when the destination root equals or
\* lies inside one of the source directories: the number of directories
\* created at the destination is bounded by the number of directories in
\* the source tree at the time of the call.
C36_SelfCopyCreatesBoundedDirs ==
    Cardinality(Creations) <= Cardinality(InputDirs)

---------------------------------------------------------------------------
(* Properties of the Unix permissions, under SpecUnix *)

\* the bit of a flag in a mode
Bit(mode, flag) == (mode \div flag) % 2 = 1

\* C39: converting a Unix mode to the structured permission triple and
\* back is the identity on the nine permission bits: for every m in
\* 0..=0o777, u32::from(UnixFilePermissions::from(m)) = m, and each of the
\* nine booleans reflects exactly its own bit.
C39_ModeRoundTrip ==
    (req.op = "UnixFilePermissions" /\ Done /\ arg.mode <= 511) =>
        /\ ret.mode = arg.mode
        /\ ret.permissions.owner.read = Bit(arg.mode, OWNER_READ)
        /\ ret.permissions.owner.write = Bit(arg.mode, OWNER_WRITE)
        /\ ret.permissions.owner.execute = Bit(arg.mode, OWNER_EXEC)
        /\ ret.permissions.group.read = Bit(arg.mode, GROUP_READ)
        /\ ret.permissions.group.write = Bit(arg.mode, GROUP_WRITE)
        /\ ret.permissions.group.execute = Bit(arg.mode, GROUP_EXEC)
        /\ ret.permissions.other.read = Bit(arg.mode, OTHER_READ)
        /\ ret.permissions.other.write = Bit(arg.mode, OTHER_WRITE)
        /\ ret.permissions.other.execute = Bit(arg.mode, OTHER_EXEC)

---------------------------------------------------------------------------
(* Properties of the path helpers, under SpecUtil *)

\* the path has a separator and does not end with one
HasLowestItem(path) ==
    /\ \E i \in 1..Len(path) : path[i] = MAIN_SEPARATOR
    /\ path[Len(path)] # MAIN_SEPARATOR

\* the run of characters other than the separator that ends at the last
\* such character of the path
LastSegment(path) ==
    LET e == CHOOSE i \in 1..Len(path) :
                /\ path[i] # MAIN_SEPARATOR
                /\ \A j \in (i + 1)..Len(path) : path[j] = MAIN_SEPARATOR
        b == CHOOSE i \in 1..e :
                /\ \A j \in i..e : path[j] # MAIN_SEPARATOR
                /\ i > 1 => path[i - 1] = MAIN_SEPARATOR
    IN SubSeq(path, b, e)

\* C40: for every slash-separated path p with at least one separator and
\* not ending with one (multi-byte characters included),
\* remove_lowest_path_item(p) + "/" + extract_lowest_path_item(p) = p;
\* extract_lowest_path_item returns the last non-empty segment, and "/" for
\* the path "/".
C40_PathSplitsAndJoins ==
    (req.op = "util" /\ Done) =>
        /\ HasLowestItem(arg.path) =>
            ret.rest \o <<MAIN_SEPARATOR>> \o ret.item = arg.path
        /\ (\E i \in 1..Len(arg.path) : arg.path[i] # MAIN_SEPARATOR) =>
            ret.item = LastSegment(arg.path)
        /\ arg.path = <<MAIN_SEPARATOR>> => ret.item = <<MAIN_SEPARATOR>>

\* C40 witness: a path with a two-byte character before its last separator
\* and one after it was taken apart into the two sides of that separator.
C40_Witness ==
    /\ req.op = "util"
    /\ Done
    /\ arg.path = <<"é", MAIN_SEPARATOR, "a", "é">>
    /\ ret.rest = <<"é">>
    /\ ret.item = <<"a", "é">>

---------------------------------------------------------------------------
(* Properties of concurrent calls on one FTPBackend, under SpecFtp *)

\* the calls whose command is in flight on the control stream
InFlight == {i \in 1..Len(tasks) : tasks[i].at = "command"}

\* the calls that hold the guard of the stream's mutex
Guards == {i \in 1..Len(tasks) : tasks[i].guard}

\* at most one command is in flight, a command is in flight only for the
\* call that holds the mutex, and a call that has returned holds nothing
OneCommandInFlight ==
    /\ Cardinality(InFlight) <= 1
    /\ Cardinality(Guards) <= 1
    /\ InFlight \subseteq Guards
    /\ \A i \in 1..Len(tasks) : tasks[i].at = "returned" => ~tasks[i].guard

\* C31: under any interleaving of concurrent calls on one FTPBackend at
\* most one command is in flight on the control stream: every stream
\* operation is performed while holding the backend's mutex, and the mutex
\* is released after each call, so that no call waits forever when the
\* others complete.
C31_StreamCommandsAreSerialised == []OneCommandInFlight /\ <>AllReturned

\* C31 witness: a call awaits the lock while the command of another is in
\* flight, after a first command of that other call was replied to.
C31_Witness ==
    /\ req.op = "backend"
    /\ Len(tasks) = 2
    /\ \E i, j \in 1..Len(tasks) :
        /\ tasks[i].at = "command"
        /\ tasks[i].op = "retrieve_files"
        /\ tasks[i].commands = 1
        /\ tasks[j].at = "lock"

=============================================================================
